---------------------------- MODULE Spec2Model ----------------------------
(***************************************************************************)
(* A model of the socionics-panel deliberation pipeline:                   *)
(*   - the four model-response parsers (agents/scout.py, agents/council.py,*)
(*     agents/manager.py), under SpecParse;                                *)
(*   - the fan-out phases of TheCouncil (agents/council.py), under         *)
(*     SpecCouncil;                                                        *)
(*   - the Streamlit session flow of app.py, under Spec.                   *)
(*                                                                         *)
(* Text is modelled as a sequence of tokens.  A token is a piece of text   *)
(* that the code never looks inside: a fence (three backticks), "json",   *)
(* white space, a block of prose, or the complete serialisation of one     *)
(* JSON document.  A Python dict is a TLA+ function from its keys.         *)
(***************************************************************************)
EXTENDS Integers, Sequences, FiniteSets, TLC

VARIABLES
    \* ---- SpecParse: one call of one parsing component
    component,      \* which method is called: research, analyze, validate, synthesize
    self_name,      \* CouncilAgent.name of the instance (analyze only)
    response,       \* outcome of self.llm.invoke(messages)
    proposed,       \* predicted_type of the three analyses given to synthesize
    returned,       \* outcome of the call: not yet / a return value / an exception
    queries,        \* what each query of search_character gets from the search engine
    prompt,         \* the user prompt research sent to the model
    invocations,    \* calls of self.llm.invoke made so far
    sent,           \* the message lists those calls were given
    \* ---- SpecCouncil: one fan-out phase of TheCouncil
    method,         \* deliberate, run_discussion or full_deliberation
    stage,          \* position inside the method
    callback,       \* behaviour of the progress callback given to the method
    task,           \* per fan-out, agent name -> state of its submitted task
    done,           \* agent names whose future the as_completed loop has handled
    results,        \* the results / discussion_responses dict being filled
    writes,         \* per fan-out, agent name -> values assigned under that key
    cb_calls,       \* the calls of progress callbacks: <<fan-out, agent_name, value>>
    analyses,       \* all_analyses given to run_discussion / built by full_deliberation
    validation,     \* outcome of run_validation inside full_deliberation
    outcome,        \* what the method gave its caller
    council,        \* the TheCouncil instance: agents, agent_map, validator
    given,          \* the dossier and all_analyses objects the caller passed
    uses,           \* phase methods called on the instance so far
    \* ---- Spec: the st.session_state of app.py and its observers
    phase, dossier, council_results, discussion_results, validation_results,
    final_result, auto_proceed, viewing_history, analysis_saved, api_key,
    history,        \* entries of .analysis_history
    run,            \* number of the run started by the last "Begin Analysis"
    rerun,          \* st.rerun() was raised: the script runs again without an event
    buttons,        \* the main-area buttons rendered by the last script run
    calls,          \* model-call phases invoked by the last script run, in order
    event,          \* the event that triggered the last script run
    failed,         \* the phase whose call raised in the last script run, or "none"
    invoked,        \* per phase, how often it was invoked in the current run
    origin          \* per session key, the run in which its value was stored

parseVars   == <<component, self_name, response, proposed, returned,
                 queries, prompt, invocations, sent>>
\* the parse part without the record of the model calls
parseArgs   == <<component, self_name, response, proposed, returned, queries,
                 prompt>>
\* the instance and the caller's objects, which outlive one call
instanceVars == <<council, given, uses>>
councilVars == <<method, stage, callback, task, done, results, writes,
                 cb_calls, analyses, validation, outcome, instanceVars>>
sessionVars == <<phase, dossier, council_results, discussion_results,
                 validation_results, final_result, auto_proceed,
                 viewing_history, analysis_saved, api_key, history, run,
                 rerun, buttons, calls, event, failed, invoked, origin>>
vars == <<parseVars, councilVars, sessionVars>>

-----------------------------------------------------------------------------
(* Bounds *)

\* longest model response, in tokens
MaxLen == 4
\* runs ("Begin Analysis") one session starts
MaxRuns == 2
\* script runs that invoke the same phase within one run
MaxInvoke == 2

-----------------------------------------------------------------------------
(* Python values *)

None == [type |-> "NoneType"]

\* d.get(k, default)
Get(d, k, default) == IF k \in DOMAIN d THEN d[k] ELSE default

\* d[k] = v
SetItem(d, k, v) == [x \in DOMAIN d \cup {k} |-> IF x = k THEN v ELSE d[x]]

Return(t, v) == [kind |-> "return", type |-> t, value |-> v]
Raise(exc, msg) == [kind |-> "raise", exc |-> exc, msg |-> msg]
NotCalled == [kind |-> "none"]

-----------------------------------------------------------------------------
(* Model responses *)

\* JSON documents a response may carry, each the serialisation of one value.
AnalysisDocs == {"A_AAA", "A_BBB_150", "A_noconf"}
VerdictDocs  == {"V_AAA", "V_CCC", "V_noconf"}
OtherDocs    == {"D_dossier", "R_report"}
ObjectDocs   == AnalysisDocs \cup VerdictDocs \cup OtherDocs
NonObjectDocs == {"[1]", "5"}
Docs == ObjectDocs \cup NonObjectDocs

\* json.loads of a document that holds a JSON object.
DocObject(d) ==
    CASE d = "A_AAA" ->
           [predicted_type |-> "AAA", confidence |-> 70, reasoning |-> "r"]
      [] d = "A_BBB_150" ->
           [predicted_type |-> "BBB", confidence |-> 150, reasoning |-> "q",
            agent_name |-> "Agent Other"]
      [] d = "A_noconf" ->
           [predicted_type |-> "AAA", reasoning |-> "r"]
      [] d = "V_AAA" ->
           [final_type |-> "AAA", quadra |-> "Alpha", confidence_score |-> 85]
      [] d = "V_CCC" ->
           [final_type |-> "CCC", quadra |-> "Gamma", confidence_score |-> -5]
      [] d = "V_noconf" ->
           [final_type |-> "BBB", quadra |-> "Beta"]
      [] d = "D_dossier" ->
           [character_name |-> "X", media_source |-> "Y",
            biographical_facts |-> <<"f1", "f2">>, key_quotes |-> <<>>,
            summary |-> "s"]
      [] d = "R_report" ->
           [errors_found |-> <<>>, verified_correct |-> <<"c1">>,
            summary |-> "ok"]

\* three backticks
Fence == "<fence>"
Tokens == {Fence, "json", " ", "txt"} \cup Docs

\* characters a token stands for
Width(t) ==
    CASE t = Fence -> 3
      [] t = "json" -> 4
      [] t = " " -> 1
      [] t = "txt" -> 250
      [] OTHER -> 40

\* sequences over S of length 0..n
SeqUpTo(S, n) == UNION {[1..k -> S] : k \in 0..n}

Texts == SeqUpTo(Tokens, MaxLen)

Causes == {"timeout"}

\* self.llm.invoke(messages): a response with its content, or an exception
Responses ==
    [ok : {TRUE}, content : Texts] \cup [ok : {FALSE}, cause : Causes]

-----------------------------------------------------------------------------
(* Text operations *)

Range(s) == {s[i] : i \in DOMAIN s}

Min(S) == CHOOSE x \in S : \A y \in S : x <= y

\* positions where the fence is directly followed by the word json
JsonFenceAt(content) ==
    {i \in 1..(Len(content) - 1) : content[i] = Fence /\ content[i + 1] = "json"}

FenceAt(content) == {i \in 1..Len(content) : content[i] = Fence}

\* text.split(fence)[0]
BeforeFence(text) ==
    IF FenceAt(text) = {} THEN text ELSE SubSeq(text, 1, Min(FenceAt(text)) - 1)

\* the fence handling that precedes json.loads in every parser
extract_content(content) ==
    IF JsonFenceAt(content) # {}
    THEN BeforeFence(SubSeq(content, Min(JsonFenceAt(content)) + 2, Len(content)))
    ELSE IF FenceAt(content) # {}
    THEN BeforeFence(SubSeq(content, Min(FenceAt(content)) + 1, Len(content)))
    ELSE content

RECURSIVE lstrip(_)
lstrip(text) ==
    IF text # <<>> /\ Head(text) = " " THEN lstrip(Tail(text)) ELSE text

RECURSIVE rstrip(_)
rstrip(text) ==
    IF text # <<>> /\ text[Len(text)] = " "
    THEN rstrip(SubSeq(text, 1, Len(text) - 1))
    ELSE text

\* str.strip()
strip(text) == rstrip(lstrip(text))

\* The serialisation of a JSON object one of whose string values contains
\* three backticks (a quoted code block): the text before them, the
\* backticks, the text after them.
TickedDoc == <<"{code:", Fence, "}">>
TickedObject == [summary |-> "s", code |-> Fence]

\* json.loads: the decoded value with its Python type, or JSONDecodeError
json_loads(text) ==
    IF Len(text) = 1 /\ text[1] \in ObjectDocs
    THEN [type |-> "dict", value |-> DocObject(text[1])]
    ELSE IF Len(text) = 1 /\ text[1] = "[1]"
    THEN [type |-> "list", value |-> <<1>>]
    ELSE IF Len(text) = 1 /\ text[1] = "5"
    THEN [type |-> "int", value |-> 5]
    ELSE IF text = TickedDoc
    THEN [type |-> "dict", value |-> TickedObject]
    ELSE IF Len(text) = 1 /\ text[1] = "{}"
    THEN [type |-> "dict", value |-> [k \in {} |-> None]]
    ELSE IF Len(text) = 1 /\ text[1] = "null"
    THEN [type |-> "NoneType", value |-> None]
    ELSE [type |-> "JSONDecodeError"]

RECURSIVE Chars(_)
Chars(text) == IF text = <<>> THEN 0 ELSE Width(Head(text)) + Chars(Tail(text))

\* text[:n]: the tokens that fit whole, then what is left of the token cut at n
RECURSIVE Slice(_, _)
Slice(text, n) ==
    IF text = <<>> \/ n <= 0 THEN <<>>
    ELSE IF Width(Head(text)) <= n
    THEN <<Head(text)>> \o Slice(Tail(text), n - Width(Head(text)))
    ELSE <<"<cut>">>

-----------------------------------------------------------------------------
(* The web search of the Scout (utils/search.py) *)

\* the query strategies of search_character
NumQueries == 7
\* max_results of search_character
MaxResults == 15

\* one search result; a result may come without the href key
Hit(u) == [title |-> "t", body |-> "b", href |-> u]
NoHref == [title |-> "t", body |-> "b"]

\* list(ddgs.text(query, max_results=5)) for one query: it raises, or it
\* returns no result, a result without href, or five results
QueryOutcomes ==
    { Raise("Exception", "ratelimit"),
      Return("list", <<>>),
      Return("list", <<NoHref>>),
      Return("list", <<Hit("u1"), Hit("u2"), Hit("u3"), Hit("u4"), Hit("u5")>>) }

\* the loop with the try around it: the first query that raises ends it
RECURSIVE GatherAbortingOnFailure(_, _, _)
GatherAbortingOnFailure(qs, i, all_results) ==
    IF i > Len(qs) \/ Len(all_results) >= MaxResults THEN all_results
    ELSE IF qs[i].kind = "raise" THEN all_results
    ELSE GatherAbortingOnFailure(qs, i + 1, all_results \o qs[i].value)

\* the loop over search_queries: stop when enough results were gathered,
\* skip a query that raised
RECURSIVE Gather(_, _, _)
Gather(qs, i, all_results) ==
    IF i > Len(qs) \/ Len(all_results) >= MaxResults THEN all_results
    ELSE Gather(qs, i + 1,
                IF qs[i].kind = "raise" THEN all_results
                ELSE all_results \o qs[i].value)

\* the queries for which the loop calls ddgs.text, in order
RECURSIVE Attempted(_, _, _)
Attempted(qs, i, all_results) ==
    IF i > Len(qs) \/ Len(all_results) >= MaxResults THEN <<>>
    ELSE <<i>> \o Attempted(qs, i + 1,
                            IF qs[i].kind = "raise" THEN all_results
                            ELSE all_results \o qs[i].value)

\* remove duplicates by href, dropping results without one
RECURSIVE Unique(_, _)
Unique(all_results, seen_urls) ==
    IF all_results = <<>> THEN <<>>
    ELSE LET url == Get(Head(all_results), "href", "") IN
         IF url # "" /\ url \notin seen_urls
         THEN <<Head(all_results)>> \o Unique(Tail(all_results), seen_urls \cup {url})
         ELSE Unique(Tail(all_results), seen_urls)

\* search_character without the final cut to max_results
search_character_uncapped(qs) == Unique(Gather(qs, 1, <<>>), {})

\* search_character, given what each query gets from the search engine
search_character(qs) ==
    LET unique_results == Unique(Gather(qs, 1, <<>>), {}) IN
    SubSeq(unique_results, 1, Min({Len(unique_results), MaxResults}))

\* format_search_results: the text handed to the model, as its paragraphs
format_search_results(found, character_name, media_source) ==
    IF found = <<>>
    THEN << [kind |-> "no results", index |-> 0,
             text |-> <<character_name, media_source,
                        "create a dossier based on your existing knowledge">>] >>
    ELSE [i \in 1..Len(found) |->
             [kind |-> "result", index |-> i,
              text |-> <<Get(found[i], "title", "No title"),
                         Get(found[i], "href", ""),
                         Get(found[i], "body", "No description")>>]]

\* the user prompt of ScoutAgent.research
user_prompt(character_name, media_source, qs) ==
    [subject |-> <<character_name, media_source>>,
     results |-> format_search_results(search_character(qs), character_name,
                                       media_source)]

-----------------------------------------------------------------------------
(* The model calls *)

\* the system prompt each method sends
SystemPrompt(c, name) ==
    CASE c = "research" -> "SCOUT_SYSTEM_PROMPT"
      [] c = "analyze" /\ name = "Agent Reinin" -> "REININ_SYSTEM_PROMPT"
      [] c = "analyze" /\ name = "Agent Quadra" -> "QUADRA_SYSTEM_PROMPT"
      [] c = "analyze" /\ name = "Agent Functions" -> "FUNCTIONS_SYSTEM_PROMPT"
      [] c = "respond_to_discussion" -> "You are {self.name}. STAY IN YOUR LANE"
      [] c = "validate" -> "VALIDATOR_SYSTEM_PROMPT"
      [] c = "synthesize" -> "MANAGER_SYSTEM_PROMPT"

\* messages = [SystemMessage(content=...), HumanMessage(content=...)] of
\* method c of the agent called name; the user prompt is named by its method
messages(c, name) ==
    << [type |-> "system", content |-> SystemPrompt(c, name), of |-> name],
       [type |-> "human", content |-> c, of |-> name] >>

\* the predicted_type of each analysis as the prompts of the discussion and
\* of the validation quote it: analysis.get('predicted_type', 'Unknown')
PredictedTypes(all_analyses) ==
    [a \in DOMAIN all_analyses |-> Get(all_analyses[a], "predicted_type", "Unknown")]

\* the messages of a method that is given all_analyses: the user prompt is
\* named by its method and by the predictions it quotes
messages_about(c, name, all_analyses) ==
    << [type |-> "system", content |-> SystemPrompt(c, name), of |-> name],
       [type |-> "human", content |-> c, of |-> name,
        about |-> PredictedTypes(all_analyses)] >>

\* response = self.llm.invoke(msgs)
Invoke(msgs) ==
    /\ invocations' = invocations + 1
    /\ sent' = sent \cup {msgs}

-----------------------------------------------------------------------------
(* The four parsing components *)

AgentNames == {"Agent Reinin", "Agent Quadra", "Agent Functions"}

\* the order of TheCouncil.agents
AgentOrder == <<"Agent Reinin", "Agent Quadra", "Agent Functions">>

\* response.content[:500] in the fallbacks of research and synthesize
FallbackChars == 500
\* response.content[:200] in the fallback of validate
SummaryChars == 200

\* the try block shared by the parsers: strip the fence, strip white space, decode
Loaded(content) == json_loads(strip(extract_content(content)))

\* research whose fallback keeps the whole raw response as its one fact
research_untruncated(character_name, media_source, resp) ==
    IF ~resp.ok THEN Raise("Exception", resp.cause)
    ELSE IF Loaded(resp.content).type = "JSONDecodeError"
    THEN Return("dict",
           [character_name |-> character_name,
            media_source |-> media_source,
            behavioral_facts |-> <<resp.content>>,
            key_quotes |-> <<>>,
            summary |-> "Failed to parse structured response",
            raw_response |-> resp.content])
    ELSE Return(Loaded(resp.content).type, Loaded(resp.content).value)

\* ScoutAgent.research from the model call on
research(character_name, media_source, resp) ==
    IF ~resp.ok THEN Raise("Exception", resp.cause)
    ELSE IF Loaded(resp.content).type = "JSONDecodeError"
    THEN Return("dict",
           [character_name |-> character_name,
            media_source |-> media_source,
            behavioral_facts |-> <<Slice(resp.content, FallbackChars)>>,
            key_quotes |-> <<>>,
            summary |-> "Failed to parse structured response",
            raw_response |-> resp.content])
    ELSE Return(Loaded(resp.content).type, Loaded(resp.content).value)

\* analyze without "analysis["agent_name"] = self.name": the agent_name of
\* the model's JSON is trusted
analyze_trusting(name, resp) ==
    IF ~resp.ok THEN Raise("Exception", resp.cause)
    ELSE IF Loaded(resp.content).type = "JSONDecodeError"
    THEN Return("dict",
           [agent_name |-> name,
            predicted_type |-> "Unknown",
            confidence |-> 0,
            reasoning |-> "Failed to parse response",
            raw_response |-> resp.content])
    ELSE IF Loaded(resp.content).type = "dict"
    THEN Return("dict",
           IF "agent_name" \in DOMAIN Loaded(resp.content).value
           THEN Loaded(resp.content).value
           ELSE SetItem(Loaded(resp.content).value, "agent_name", name))
    ELSE Raise("TypeError", "item assignment")

\* CouncilAgent.analyze from the model call on
analyze(name, resp) ==
    IF ~resp.ok THEN Raise("Exception", resp.cause)
    ELSE IF Loaded(resp.content).type = "JSONDecodeError"
    THEN Return("dict",
           [agent_name |-> name,
            predicted_type |-> "Unknown",
            confidence |-> 0,
            reasoning |-> "Failed to parse response",
            raw_response |-> resp.content])
    ELSE IF Loaded(resp.content).type = "dict"
    THEN Return("dict", SetItem(Loaded(resp.content).value, "agent_name", name))
    \* analysis["agent_name"] = self.name on a list, a number...: not a JSONDecodeError
    ELSE Raise("TypeError", "item assignment")

\* validate without its try block: the JSONDecodeError reaches the caller
validate_unguarded(resp) ==
    IF ~resp.ok THEN Raise("Exception", resp.cause)
    ELSE IF Loaded(resp.content).type = "JSONDecodeError"
    THEN Raise("JSONDecodeError", "Expecting value")
    ELSE Return(Loaded(resp.content).type, Loaded(resp.content).value)

\* validate with the model call inside the try block and a handler for every
\* exception: a transport failure becomes the degraded report
validate_degrading(resp) ==
    IF ~resp.ok \/ Loaded(resp.content).type = "JSONDecodeError"
    THEN Return("dict",
           [errors_found |-> <<>>,
            verified_correct |-> <<>>,
            summary |-> <<"Failed to parse validation response: ">>
                        \o (IF resp.ok THEN Slice(resp.content, SummaryChars)
                            ELSE <<resp.cause>>) \o <<"...">>])
    ELSE Return(Loaded(resp.content).type, Loaded(resp.content).value)

\* ValidatorAgent.validate from the model call on
validate(resp) ==
    IF ~resp.ok THEN Raise("Exception", resp.cause)
    ELSE IF Loaded(resp.content).type = "JSONDecodeError"
    THEN Return("dict",
           [errors_found |-> <<>>,
            verified_correct |-> <<>>,
            summary |-> <<"Failed to parse validation response: ">>
                        \o Slice(resp.content, SummaryChars) \o <<"...">>])
    ELSE Return(Loaded(resp.content).type, Loaded(resp.content).value)

\* synthesize whose fallback keeps only the first 500 characters of the
\* response as raw_response
synthesize_truncating(resp) ==
    IF ~resp.ok THEN Raise("Exception", resp.cause)
    ELSE IF Loaded(resp.content).type = "JSONDecodeError"
    THEN Return("dict",
           [final_type |-> "Unknown",
            type_name |-> "Could not determine",
            type_nickname |-> "Unknown",
            quadra |-> "Unknown",
            confidence_score |-> 0,
            confidence_explanation |-> "Failed to parse response",
            key_traits |-> <<>>,
            summary |-> Slice(resp.content, FallbackChars),
            raw_response |-> Slice(resp.content, FallbackChars)])
    ELSE Return(Loaded(resp.content).type, Loaded(resp.content).value)

\* ManagerAgent.synthesize from the model call on
synthesize(resp) ==
    IF ~resp.ok THEN Raise("Exception", resp.cause)
    ELSE IF Loaded(resp.content).type = "JSONDecodeError"
    THEN Return("dict",
           [final_type |-> "Unknown",
            type_name |-> "Could not determine",
            type_nickname |-> "Unknown",
            quadra |-> "Unknown",
            confidence_score |-> 0,
            confidence_explanation |-> "Failed to parse response",
            key_traits |-> <<>>,
            summary |-> Slice(resp.content, FallbackChars),
            raw_response |-> resp.content])
    ELSE Return(Loaded(resp.content).type, Loaded(resp.content).value)

-----------------------------------------------------------------------------
(* TheCouncil: the fan-out phases *)

EmptyDict == [x \in {} |-> None]

Running == [kind |-> "running"]

\* What a progress callback does when it is invoked: nothing was supplied,
\* it only observes, it raises, or it changes the dict it was handed.
CallbackKinds == {"none", "observe", "raise", "mutate"}

CallbackMsg == "callback failed"

\* an in-place change of the dict a callback receives
Mutated(d) == SetItem(d, "predicted_type", "ZZZ")

\* CouncilAgent.respond_to_discussion from the model call on
respond_to_discussion(name, all_analyses, resp) ==
    IF ~resp.ok THEN Raise("Exception", resp.cause)
    ELSE Return("str", resp.content)

\* the except branch of deliberate dropping the cause of the failure
AnalysisErrorNoCause(agent_name, msg) ==
    [agent_name |-> agent_name,
     predicted_type |-> "Error",
     confidence |-> 0,
     reasoning |-> <<"Error during analysis">>]

\* the except branch of TheCouncil.deliberate
AnalysisError(agent_name, msg) ==
    [agent_name |-> agent_name,
     predicted_type |-> "Error",
     confidence |-> 0,
     reasoning |-> <<"Error during analysis: ", msg>>]

\* the except branch of TheCouncil.run_discussion
DiscussionError(msg) == <<"Error during discussion: ", msg>>

\* The values assigned to results[agent_name] by one iteration of the
\* as_completed loop of deliberate, in order.
DeliberateWrites(agent_name, o, cb) ==
    IF o.kind = "raise" THEN <<AnalysisError(agent_name, o.msg)>>
    ELSE IF cb = "raise" THEN <<o.value, AnalysisError(agent_name, CallbackMsg)>>
    ELSE <<o.value>>

\* The value under results[agent_name] when that iteration ends.
DeliberateSlot(agent_name, o, cb) ==
    LET w == DeliberateWrites(agent_name, o, cb) IN
    IF o.kind = "return" /\ cb = "mutate" THEN Mutated(w[Len(w)]) ELSE w[Len(w)]

\* The same for the as_completed loop of run_discussion (a str cannot be
\* changed in place).
DiscussionWrites(agent_name, o, cb) ==
    IF o.kind = "raise" THEN <<DiscussionError(o.msg)>>
    ELSE IF cb = "raise" THEN <<o.value, DiscussionError(CallbackMsg)>>
    ELSE <<o.value>>

DiscussionSlot(agent_name, o, cb) ==
    LET w == DiscussionWrites(agent_name, o, cb) IN w[Len(w)]

\* progress_callback(agent_name, value) is reached only inside the try block,
\* after future.result() returned
CallbackCalls(agent_name, o, cb) ==
    IF o.kind = "return" /\ cb # "none" THEN <<<<agent_name, o.value>>>> ELSE <<>>

\* responses of the model to an analysis prompt, and to a discussion prompt
AnalysisResponses ==
    { [ok |-> TRUE, content |-> <<Fence, "json", "A_BBB_150", Fence>>],
      [ok |-> TRUE, content |-> <<"txt">>],
      [ok |-> TRUE, content |-> <<"[1]">>],
      [ok |-> FALSE, cause |-> "timeout"] }

DiscussionResponses ==
    { [ok |-> TRUE, content |-> <<"txt">>],
      [ok |-> FALSE, cause |-> "timeout"] }

ValidationResponses ==
    { [ok |-> TRUE, content |-> <<Fence, "json", "R_report", Fence>>],
      [ok |-> TRUE, content |-> <<"txt">>],
      [ok |-> FALSE, cause |-> "timeout"] }

\* (results.get("Agent Reinin", {}), results.get("Agent Quadra", {}), ...)
ResultTuple(res) == [i \in 1..3 |-> Get(res, AgentOrder[i], EmptyDict)]

\* all_analyses as full_deliberation and app.py build it from the tuple
AllAnalyses(t) ==
    [a \in AgentNames |->
        CASE a = "Agent Reinin" -> t[1]
          [] a = "Agent Quadra" -> t[2]
          [] a = "Agent Functions" -> t[3]]

\* analyses a caller may hand to run_discussion
\* TheCouncil(api_key): the three specialists in their fixed order, the
\* name -> agent mapping and the validator
NewCouncil ==
    [agents |-> AgentOrder,
     agent_map |-> [a \in AgentNames |-> a],
     validator |-> "The Validator"]

\* a dossier the caller kept from research
GivenDossier == DocObject("D_dossier")

GivenAnalyses ==
    { AllAnalyses(<<
        analyze("Agent Reinin", [ok |-> TRUE, content |-> <<"A_AAA">>]).value,
        analyze("Agent Quadra", [ok |-> TRUE, content |-> <<"A_BBB_150">>]).value,
        analyze("Agent Functions", [ok |-> TRUE, content |-> <<"txt">>]).value >>) }

-----------------------------------------------------------------------------
(* Start states of the three parts *)

Phases == {"research", "deliberate", "discussion", "validation", "synthesize"}

\* the keys of st.session_state that hold the results of a run
ResultKeys == {"dossier", "council_results", "discussion_results",
               "validation_results", "final_result"}

FanOuts == {"analysis", "discussion"}

NoTasks == [f \in FanOuts |-> [a \in AgentNames |-> NotCalled]]
NoWrites == [f \in FanOuts |-> [a \in AgentNames |-> <<>>]]

\* nothing is being parsed
ParseIdle ==
    /\ component = "none"
    /\ self_name = "none"
    /\ response = [ok |-> FALSE, cause |-> "none"]
    /\ proposed = <<>>
    /\ returned = NotCalled
    /\ queries = <<>>
    /\ prompt = None
    /\ invocations = 0
    /\ sent = {}

\* no method of TheCouncil is running
CouncilIdle ==
    /\ method = "none"
    /\ stage = "none"
    /\ callback = "none"
    /\ task = NoTasks
    /\ done = {}
    /\ results = EmptyDict
    /\ writes = NoWrites
    /\ cb_calls = <<>>
    /\ analyses = EmptyDict
    /\ validation = NotCalled
    /\ outcome = NotCalled
    /\ council = NewCouncil
    /\ given = [dossier |-> None, all_analyses |-> None]
    /\ uses = 0

\* an analysis saved to .analysis_history by an earlier session
EarlierEntry ==
    [dossier |-> None, council_results |-> None, discussion_results |-> None,
     validation_results |-> None, final_result |-> None, run |-> 0]

\* app.py, "SESSION STATE INITIALIZATION": a new browser session; the history
\* directory is empty or holds an entry of an earlier session
SessionStart ==
    /\ api_key \in BOOLEAN
    /\ phase = "input"
    /\ dossier = None
    /\ council_results = None
    /\ discussion_results = None
    /\ validation_results = None
    /\ final_result = None
    /\ auto_proceed \in BOOLEAN
    /\ viewing_history = None
    /\ analysis_saved = FALSE
    /\ history \in {<<>>, <<EarlierEntry>>}
    /\ run = 0
    /\ rerun = FALSE
    /\ buttons = {}
    /\ calls = <<>>
    /\ event = "none"
    /\ failed = "none"
    /\ invoked = [p \in Phases |-> 0]
    /\ origin = [k \in ResultKeys |-> 0]

SessionIdle ==
    /\ SessionStart
    /\ api_key = FALSE
    /\ auto_proceed = FALSE
    /\ history = <<>>

-----------------------------------------------------------------------------
(* SpecParse: one call of research, analyze, validate or synthesize *)

\* documents the model may put in its answer to each component
DocsFor(c) ==
    NonObjectDocs \cup
    CASE c = "research" -> {"D_dossier"}
      [] c = "analyze" -> AnalysisDocs
      [] c = "validate" -> {"R_report"}
      [] c = "synthesize" -> VerdictDocs

ResponsesFor(c) ==
    {r \in Responses :
        r.ok => Range(r.content) \subseteq {Fence, "json", " ", "txt"} \cup DocsFor(c)}

Analysis(name, type) ==
    [agent_name |-> name, predicted_type |-> type, confidence |-> 70,
     reasoning |-> "r"]

\* (reinin_analysis, quadra_analysis, functions_analysis) given to synthesize
ProposedTriples ==
    { <<Analysis("Agent Reinin", "AAA"), Analysis("Agent Quadra", "BBB"),
        Analysis("Agent Functions", "AAA")>>,
      <<Analysis("Agent Reinin", "BBB"), Analysis("Agent Quadra", "BBB"),
        Analysis("Agent Functions", "BBB")>>,
      <<Analysis("Agent Reinin", "AAA"),
        analyze("Agent Quadra", [ok |-> TRUE, content |-> <<"txt">>]).value,
        AnalysisError("Agent Functions", "timeout")>> }

InitParse ==
    /\ component \in {"research", "analyze", "validate", "synthesize"}
    /\ self_name \in (IF component = "analyze" THEN AgentNames ELSE {"none"})
    /\ response \in ResponsesFor(component)
    /\ proposed \in (IF component = "synthesize" THEN ProposedTriples ELSE {<<>>})
    /\ returned = NotCalled
    /\ queries = <<>> /\ prompt = None /\ invocations = 0 /\ sent = {}
    /\ CouncilIdle
    /\ SessionIdle

Research ==
    /\ component = "research" /\ returned = NotCalled
    /\ returned' = research("X", "Y", response)
    /\ Invoke(messages("research", "none"))
    /\ UNCHANGED <<component, self_name, response, proposed, queries, prompt,
                   councilVars, sessionVars>>

Analyze ==
    /\ component = "analyze" /\ returned = NotCalled
    /\ returned' = analyze(self_name, response)
    /\ Invoke(messages("analyze", self_name))
    /\ UNCHANGED <<component, self_name, response, proposed, queries, prompt,
                   councilVars, sessionVars>>

Validate ==
    /\ component = "validate" /\ returned = NotCalled
    /\ returned' = validate(response)
    /\ Invoke(messages("validate", "none"))
    /\ UNCHANGED <<component, self_name, response, proposed, queries, prompt,
                   councilVars, sessionVars>>

Synthesize ==
    /\ component = "synthesize" /\ returned = NotCalled
    /\ returned' = synthesize(response)
    /\ Invoke(messages("synthesize", "none"))
    /\ UNCHANGED <<component, self_name, response, proposed, queries, prompt,
                   councilVars, sessionVars>>

NextParse == Research \/ Analyze \/ Validate \/ Synthesize

SpecParse == InitParse /\ [][NextParse]_vars

-----------------------------------------------------------------------------
(* SpecCouncil: one call of deliberate, run_discussion or full_deliberation *)

Methods == {"deliberate", "run_discussion", "full_deliberation"}

InitCouncil ==
    /\ method \in Methods
    /\ stage = "called"
    /\ callback \in CallbackKinds
    /\ task = NoTasks
    /\ done = {}
    /\ results = EmptyDict
    /\ writes = NoWrites
    /\ cb_calls = <<>>
    /\ analyses \in (IF method = "run_discussion" THEN GivenAnalyses ELSE {EmptyDict})
    /\ validation = NotCalled
    /\ outcome = NotCalled
    /\ council = NewCouncil
    /\ given = [dossier |-> GivenDossier,
                all_analyses |-> IF method = "run_discussion" THEN analyses ELSE None]
    /\ uses = 1
    /\ ParseIdle
    /\ SessionIdle

\* results = {} and the dict comprehension of executor.submit: all three
\* tasks are handed to the pool of three workers before the loop starts
Submit ==
    /\ stage = "called"
    /\ stage' = IF method = "run_discussion" THEN "discussion" ELSE "analysis"
    /\ task' = [task EXCEPT ![stage'] = [a \in AgentNames |-> Running]]
    /\ UNCHANGED <<method, callback, done, results, writes, cb_calls, analyses,
                   validation, outcome, parseVars, sessionVars,
                   instanceVars>>

\* agent.analyze calling the model a second time when the first call raised
ResolveAnalyzeRetrying(a) ==
    /\ stage = "analysis"
    /\ task.analysis[a] = Running
    /\ \E first, second \in AnalysisResponses :
        /\ task' = [task EXCEPT !.analysis[a] =
                      analyze(a, IF first.ok THEN first ELSE second)]
        /\ invocations' = invocations + (IF first.ok THEN 1 ELSE 2)
        /\ sent' = sent \cup {messages("analyze", a)}
    /\ UNCHANGED <<method, stage, callback, done, results, writes, cb_calls,
                   analyses, validation, outcome, parseArgs, sessionVars,
                   instanceVars>>

\* a worker thread finishes agent.analyze(dossier)
ResolveAnalyze(a) ==
    /\ stage = "analysis"
    /\ task.analysis[a] = Running
    /\ \E resp \in AnalysisResponses :
          task' = [task EXCEPT !.analysis[a] = analyze(a, resp)]
    /\ Invoke(messages("analyze", a))
    /\ UNCHANGED <<method, stage, callback, done, results, writes, cb_calls,
                   analyses, validation, outcome, parseArgs, sessionVars,
                   instanceVars>>

\* a worker thread finishes agent.respond_to_discussion(dossier, all_analyses)
ResolveRespond(a) ==
    /\ stage = "discussion"
    /\ task.discussion[a] = Running
    /\ \E resp \in DiscussionResponses :
          task' = [task EXCEPT !.discussion[a] = respond_to_discussion(a, analyses, resp)]
    /\ Invoke(messages_about("respond_to_discussion", a, analyses))
    /\ UNCHANGED <<method, stage, callback, done, results, writes, cb_calls,
                   analyses, validation, outcome, parseArgs, sessionVars,
                   instanceVars>>

\* the as_completed loop of deliberate storing results by arrival: the k-th
\* future to complete fills the slot of the k-th agent
CollectByArrival(a) ==
    /\ stage = "analysis"
    /\ a \notin done
    /\ task.analysis[a].kind \in {"return", "raise"}
    /\ done' = done \cup {a}
    /\ results' = SetItem(results, AgentOrder[Cardinality(done) + 1],
                          DeliberateSlot(a, task.analysis[a], callback))
    /\ writes' = [writes EXCEPT !.analysis[AgentOrder[Cardinality(done) + 1]] =
                     @ \o DeliberateWrites(a, task.analysis[a], callback)]
    /\ cb_calls' = cb_calls \o
          [i \in DOMAIN CallbackCalls(a, task.analysis[a], callback) |->
              <<"analysis">> \o CallbackCalls(a, task.analysis[a], callback)[i]]
    /\ UNCHANGED <<method, stage, callback, task, analyses, validation, outcome,
                   parseVars, sessionVars,
                   instanceVars>>

\* one iteration of "for future in as_completed(future_to_agent)" in deliberate
CollectAnalysis(a) ==
    /\ stage = "analysis"
    /\ a \notin done
    /\ task.analysis[a].kind \in {"return", "raise"}
    /\ done' = done \cup {a}
    /\ results' = SetItem(results, a, DeliberateSlot(a, task.analysis[a], callback))
    /\ writes' = [writes EXCEPT !.analysis[a] =
                     @ \o DeliberateWrites(a, task.analysis[a], callback)]
    /\ cb_calls' = cb_calls \o
          [i \in DOMAIN CallbackCalls(a, task.analysis[a], callback) |->
              <<"analysis">> \o CallbackCalls(a, task.analysis[a], callback)[i]]
    /\ UNCHANGED <<method, stage, callback, task, analyses, validation, outcome,
                   parseVars, sessionVars,
                   instanceVars>>

\* one iteration of the as_completed loop in run_discussion
CollectResponse(a) ==
    /\ stage = "discussion"
    /\ a \notin done
    /\ task.discussion[a].kind \in {"return", "raise"}
    /\ done' = done \cup {a}
    /\ results' = SetItem(results, a, DiscussionSlot(a, task.discussion[a], callback))
    /\ writes' = [writes EXCEPT !.discussion[a] =
                     @ \o DiscussionWrites(a, task.discussion[a], callback)]
    /\ cb_calls' = cb_calls \o
          [i \in DOMAIN CallbackCalls(a, task.discussion[a], callback) |->
              <<"discussion">> \o CallbackCalls(a, task.discussion[a], callback)[i]]
    /\ UNCHANGED <<method, stage, callback, task, analyses, validation, outcome,
                   parseVars, sessionVars,
                   instanceVars>>

\* deliberate returning as soon as one future has been handled, without
\* waiting for the others
ReturnAfterFirst ==
    /\ method = "deliberate"
    /\ stage = "analysis"
    /\ done # {}
    /\ stage' = "returned"
    /\ outcome' = Return("tuple", ResultTuple(results))
    /\ UNCHANGED <<method, callback, task, done, results, writes, cb_calls,
                   analyses, validation, parseVars, sessionVars,
                   instanceVars>>

\* deliberate: the loop and the with block end, the tuple is returned
ReturnDeliberate ==
    /\ method = "deliberate"
    /\ stage = "analysis"
    /\ done = AgentNames
    /\ stage' = "returned"
    /\ outcome' = Return("tuple", ResultTuple(results))
    /\ UNCHANGED <<method, callback, task, done, results, writes, cb_calls,
                   analyses, validation, parseVars, sessionVars,
                   instanceVars>>

\* run_discussion: the loop and the with block end, the dict is returned
ReturnDiscussion ==
    /\ method = "run_discussion"
    /\ stage = "discussion"
    /\ done = AgentNames
    /\ stage' = "returned"
    /\ outcome' = Return("dict", results)
    /\ UNCHANGED <<method, callback, task, done, results, writes, cb_calls,
                   analyses, validation, parseVars, sessionVars,
                   instanceVars>>

\* full_deliberation keeping the analyses of the run on the instance
StartDiscussionKeeping ==
    /\ method = "full_deliberation"
    /\ stage = "analysis"
    /\ done = AgentNames
    /\ analyses' = AllAnalyses(ResultTuple(results))
    /\ council' = council @@ ("all_analyses" :> analyses')
    /\ stage' = "discussion"
    /\ task' = [task EXCEPT !.discussion = [a \in AgentNames |-> Running]]
    /\ done' = {}
    /\ results' = EmptyDict
    /\ UNCHANGED <<method, callback, writes, cb_calls, validation, outcome,
                   parseVars, sessionVars, given, uses>>

\* full_deliberation going on to the discussion as soon as one analysis has
\* been handled
StartDiscussionEarly ==
    /\ method = "full_deliberation"
    /\ stage = "analysis"
    /\ done # {}
    /\ analyses' = AllAnalyses(ResultTuple(results))
    /\ stage' = "discussion"
    /\ task' = [task EXCEPT !.discussion = [a \in AgentNames |-> Running]]
    /\ done' = {}
    /\ results' = EmptyDict
    /\ UNCHANGED <<method, callback, writes, cb_calls, validation, outcome,
                   parseVars, sessionVars, instanceVars>>

\* full_deliberation: deliberate has returned; all_analyses is built and
\* run_discussion submits its three tasks
StartDiscussion ==
    /\ method = "full_deliberation"
    /\ stage = "analysis"
    /\ done = AgentNames
    /\ analyses' = AllAnalyses(ResultTuple(results))
    /\ stage' = "discussion"
    /\ task' = [task EXCEPT !.discussion = [a \in AgentNames |-> Running]]
    /\ done' = {}
    /\ results' = EmptyDict
    /\ UNCHANGED <<method, callback, writes, cb_calls, validation, outcome,
                   parseVars, sessionVars,
                   instanceVars>>

\* full_deliberation: run_discussion has returned; run_validation, the
\* validation callback and the return
FinishFull ==
    /\ method = "full_deliberation"
    /\ stage = "discussion"
    /\ done = AgentNames
    /\ \E resp \in ValidationResponses :
        LET v == validate(resp)
            seen == IF v.kind = "return" /\ callback = "mutate"
                    THEN Return(v.type, Mutated(v.value)) ELSE v
        IN
        /\ validation' = seen
        /\ cb_calls' = IF v.kind = "return" /\ callback # "none"
                       THEN Append(cb_calls, <<"validation", "The Validator", v.value>>)
                       ELSE cb_calls
        /\ IF v.kind = "raise"
           THEN stage' = "raised" /\ outcome' = v
           ELSE IF callback = "raise"
           THEN stage' = "raised" /\ outcome' = Raise("Exception", CallbackMsg)
           ELSE /\ stage' = "returned"
                /\ outcome' = Return("tuple",
                      [reinin |-> analyses["Agent Reinin"],
                       quadra |-> analyses["Agent Quadra"],
                       functions |-> analyses["Agent Functions"],
                       discussion |-> results,
                       validation |-> seen.value])
    /\ Invoke(messages_about("validate", "none", analyses))
    /\ UNCHANGED <<method, callback, task, done, results, writes, analyses,
                   parseArgs, sessionVars,
                   instanceVars>>

NextCouncil ==
    \/ Submit
    \/ \E a \in AgentNames : ResolveAnalyze(a)
    \/ \E a \in AgentNames : ResolveRespond(a)
    \/ \E a \in AgentNames : CollectAnalysis(a)
    \/ \E a \in AgentNames : CollectResponse(a)
    \/ ReturnDeliberate
    \/ ReturnDiscussion
    \/ StartDiscussion
    \/ FinishFull

SpecCouncil == InitCouncil /\ [][NextCouncil]_vars

-----------------------------------------------------------------------------
(* Spec: the session flow of app.py.  One action is one run of the script,  *)
(* from the sidebar to the block of the current phase, for the event that   *)
(* triggered it.                                                            *)

\* TheCouncil.deliberate as app.py calls it (no callback): the tuple it
\* returns for the responses the three analyze calls get
deliberate(resps) ==
    ResultTuple([a \in AgentNames |-> DeliberateSlot(a, analyze(a, resps[a]), "none")])

\* TheCouncil.run_discussion as app.py calls it (no callback)
run_discussion(all_analyses, resps) ==
    [a \in AgentNames |->
        DiscussionSlot(a, respond_to_discussion(a, all_analyses, resps[a]), "none")]

\* TheCouncil.run_validation
run_validation(all_analyses, resp) == validate(resp)

\* what the model calls of a session may answer
SessionResearch ==
    { [ok |-> TRUE, content |-> <<"D_dossier">>],
      [ok |-> TRUE, content |-> <<"null">>],
      [ok |-> FALSE, cause |-> "timeout"] }

SessionAnalysis ==
    { [a \in AgentNames |-> [ok |-> TRUE, content |-> <<"A_AAA">>]],
      [a \in AgentNames |->
          IF a = "Agent Quadra"
          THEN [ok |-> TRUE, content |-> <<"A_BBB_150">>]
          ELSE IF a = "Agent Functions"
          THEN [ok |-> FALSE, cause |-> "timeout"]
          ELSE [ok |-> TRUE, content |-> <<Fence, "json", "A_AAA", Fence>>]] }

SessionDiscussion ==
    { [a \in AgentNames |->
          IF a = "Agent Reinin"
          THEN [ok |-> FALSE, cause |-> "timeout"]
          ELSE [ok |-> TRUE, content |-> <<"txt">>]] }

SessionValidation ==
    { [ok |-> TRUE, content |-> <<"R_report">>],
      [ok |-> FALSE, cause |-> "timeout"] }

SessionSynthesis ==
    { [ok |-> TRUE, content |-> <<"V_AAA">>],
      [ok |-> TRUE, content |-> <<"null">>],
      [ok |-> FALSE, cause |-> "timeout"] }

\* events of the sidebar that let the script run on into the main content
SidebarEvents == {"toggle_auto", "enter_key"}

\* the event e can trigger the next run of the script
Triggers(e) ==
    IF rerun THEN e = "rerun" ELSE e \in SidebarEvents \cup buttons

\* the sidebar: the API key input and the auto-proceed checkbox
KeyAfter(e) == api_key \/ e = "enter_key"
AutoAfter(e) == IF e = "toggle_auto" THEN ~auto_proceed ELSE auto_proceed

Sidebar(e) ==
    /\ Triggers(e)
    /\ event' = e
    /\ api_key' = KeyAfter(e)
    /\ auto_proceed' = AutoAfter(e)
    /\ UNCHANGED <<parseVars, councilVars>>

\* not api_key: st.warning and st.stop()
Stopped(e) ==
    /\ Sidebar(e)
    /\ ~KeyAfter(e)
    /\ rerun' = FALSE /\ buttons' = {} /\ calls' = <<>> /\ failed' = "none"
    /\ UNCHANGED <<phase, dossier, council_results, discussion_results,
                   validation_results, final_result, viewing_history,
                   analysis_saved, history, run, invoked, origin>>

\* a Reset that leaves the verdict of the run in the session
ResetKeepingVerdict ==
    /\ ~rerun
    /\ event' = "reset"
    /\ phase' = "input"
    /\ dossier' = None
    /\ council_results' = None
    /\ discussion_results' = None
    /\ validation_results' = None
    /\ viewing_history' = None
    /\ analysis_saved' = FALSE
    /\ rerun' = TRUE
    /\ buttons' = {} /\ calls' = <<>> /\ failed' = "none"
    /\ origin' = [k \in ResultKeys |-> 0]
    /\ UNCHANGED <<final_result, api_key, auto_proceed, history, run, invoked,
                   parseVars, councilVars>>

\* the Reset button of the sidebar
Reset ==
    /\ ~rerun
    /\ event' = "reset"
    /\ phase' = "input"
    /\ dossier' = None
    /\ council_results' = None
    /\ discussion_results' = None
    /\ validation_results' = None
    /\ final_result' = None
    /\ viewing_history' = None
    /\ analysis_saved' = FALSE
    /\ rerun' = TRUE
    /\ buttons' = {} /\ calls' = <<>> /\ failed' = "none"
    /\ origin' = [k \in ResultKeys |-> 0]
    /\ UNCHANGED <<api_key, auto_proceed, history, run, invoked, parseVars,
                   councilVars>>

\* a history button of the sidebar
ViewHistory(i) ==
    /\ ~rerun
    /\ i \in DOMAIN history
    /\ event' = "view_history"
    /\ viewing_history' = [filepath |-> i]
    /\ phase' = "history_view"
    /\ rerun' = TRUE
    /\ buttons' = {} /\ calls' = <<>> /\ failed' = "none"
    /\ UNCHANGED <<api_key, auto_proceed, dossier, council_results,
                   discussion_results, validation_results, final_result,
                   analysis_saved, history, run, invoked, origin,
                   parseVars, councilVars>>

\* HISTORY VIEW MODE
RunHistoryView(e) ==
    /\ Sidebar(e) /\ KeyAfter(e)
    /\ phase = "history_view" /\ viewing_history # None
    /\ calls' = <<>> /\ failed' = "none"
    /\ IF e = "back"
       THEN viewing_history' = None /\ phase' = "input" /\ rerun' = TRUE
            /\ buttons' = {}
       ELSE UNCHANGED <<viewing_history, phase>> /\ rerun' = FALSE
            /\ buttons' = {"back"}
    /\ UNCHANGED <<dossier, council_results, discussion_results,
                   validation_results, final_result, analysis_saved, history,
                   run, invoked, origin>>

\* INPUT PHASE
RunInput(e) ==
    /\ Sidebar(e) /\ KeyAfter(e)
    /\ phase = "input"
    /\ calls' = <<>> /\ failed' = "none"
    /\ IF e = "begin"
       THEN /\ run < MaxRuns
            /\ phase' = "researching" /\ rerun' = TRUE /\ buttons' = {}
            /\ run' = run + 1
            /\ invoked' = [p \in Phases |-> 0]
       ELSE /\ rerun' = FALSE /\ buttons' = {"begin"}
            /\ UNCHANGED <<phase, run, invoked>>
    /\ UNCHANGED <<dossier, council_results, discussion_results,
                   validation_results, final_result, viewing_history,
                   analysis_saved, history, origin>>

\* RESEARCH PHASE
RunResearching(e) ==
    /\ Sidebar(e) /\ KeyAfter(e)
    /\ phase = "researching"
    /\ invoked["research"] < MaxInvoke
    /\ invoked' = [invoked EXCEPT !["research"] = @ + 1]
    /\ calls' = <<"research">>
    /\ \E resp \in SessionResearch :
        LET d == research("X", "Y", resp) IN
        IF d.kind = "return"
        THEN /\ dossier' = d.value
             /\ origin' = [origin EXCEPT !["dossier"] = run]
             /\ phase' = "analyzing" /\ rerun' = TRUE
             /\ buttons' = {} /\ failed' = "none"
        ELSE /\ failed' = "research"
             \* if st.button("Retry"): st.rerun()
             /\ rerun' = (e = "retry_research")
             /\ buttons' = IF e = "retry_research" THEN {} ELSE {"retry_research"}
             /\ UNCHANGED <<dossier, origin, phase>>
    /\ UNCHANGED <<council_results, discussion_results, validation_results,
                   final_result, viewing_history, analysis_saved, history, run>>

\* ANALYSIS PHASE with a dossier that is None: display_dossier(dossier)
\* raises at dossier.get, outside any try, and the script run ends there
RunAnalyzingNoDossier(e) ==
    /\ Sidebar(e) /\ KeyAfter(e)
    /\ phase = "analyzing"
    /\ dossier = None
    /\ calls' = <<>> /\ failed' = "none"
    /\ rerun' = FALSE /\ buttons' = {}
    /\ UNCHANGED <<phase, dossier, council_results, discussion_results,
                   validation_results, final_result, viewing_history,
                   analysis_saved, history, run, invoked, origin>>

\* ANALYSIS PHASE
RunAnalyzing(e) ==
    /\ Sidebar(e) /\ KeyAfter(e)
    /\ phase = "analyzing"
    /\ dossier # None
    /\ invoked["deliberate"] < MaxInvoke
    /\ invoked' = [invoked EXCEPT !["deliberate"] = @ + 1]
    /\ calls' = <<"deliberate">> /\ failed' = "none"
    /\ \E resps \in SessionAnalysis :
          council_results' = [reinin |-> deliberate(resps)[1],
                               quadra |-> deliberate(resps)[2],
                               functions |-> deliberate(resps)[3]]
    /\ origin' = [origin EXCEPT !["council_results"] = run]
    /\ IF AutoAfter(e) \/ e = "proceed_discussion"
       THEN phase' = "discussing" /\ rerun' = TRUE /\ buttons' = {}
       ELSE phase' = phase /\ rerun' = FALSE /\ buttons' = {"proceed_discussion"}
    /\ UNCHANGED <<dossier, discussion_results, validation_results,
                   final_result, viewing_history, analysis_saved, history, run>>

\* all_analyses as the discussing block builds it from council_results
SessionAnalyses ==
    AllAnalyses(<<council_results.reinin, council_results.quadra,
                  council_results.functions>>)

\* if st.session_state.discussion_results is None:
DiscussionPending == discussion_results = None

\* DISCUSSION PHASE
RunDiscussing(e) ==
    /\ Sidebar(e) /\ KeyAfter(e)
    /\ phase = "discussing"
    /\ IF DiscussionPending
       THEN /\ invoked["discussion"] < MaxInvoke
            /\ invoked["validation"] < MaxInvoke
            /\ invoked' = [invoked EXCEPT !["discussion"] = @ + 1,
                                          !["validation"] = @ + 1]
            /\ calls' = <<"discussion", "validation">>
            /\ \E resps \in SessionDiscussion :
                  discussion_results' = run_discussion(SessionAnalyses, resps)
            /\ \E resp \in SessionValidation :
                LET v == run_validation(SessionAnalyses, resp) IN
                IF v.kind = "return"
                THEN /\ validation_results' = v.value
                     /\ origin' = [origin EXCEPT !["discussion_results"] = run,
                                                 !["validation_results"] = run]
                     /\ failed' = "none"
                ELSE /\ validation_results' = validation_results
                     /\ origin' = [origin EXCEPT !["discussion_results"] = run]
                     /\ failed' = "validation"
       ELSE /\ calls' = <<>> /\ failed' = "none"
            /\ UNCHANGED <<invoked, discussion_results, validation_results, origin>>
    \* if st.session_state.discussion_results: (a dict of three keys is true)
    /\ IF AutoAfter(e) \/ e = "proceed_synthesis"
       THEN phase' = "complete" /\ rerun' = TRUE /\ buttons' = {}
       ELSE /\ phase' = phase /\ rerun' = FALSE
            /\ buttons' = {"proceed_synthesis"} \cup
                  (IF failed' = "validation" THEN {"retry_discussion"} ELSE {})
    /\ UNCHANGED <<dossier, council_results, final_result, viewing_history,
                   analysis_saved, history, run>>

\* SYNTHESIS PHASE
RunComplete(e) ==
    /\ Sidebar(e) /\ KeyAfter(e)
    /\ phase = "complete"
    /\ IF final_result = None
       THEN /\ invoked["synthesize"] < MaxInvoke
            /\ invoked' = [invoked EXCEPT !["synthesize"] = @ + 1]
            /\ calls' = <<"synthesize">>
            /\ \E resp \in SessionSynthesis :
                LET v == synthesize(resp) IN
                IF v.kind = "return"
                THEN /\ final_result' = v.value
                     /\ origin' = [origin EXCEPT !["final_result"] = run]
                     /\ rerun' = TRUE /\ buttons' = {} /\ failed' = "none"
                ELSE /\ failed' = "synthesize"
                     \* if st.button("Retry"): final_result = None; st.rerun()
                     /\ rerun' = (e = "retry_synthesis")
                     /\ buttons' = IF e = "retry_synthesis" THEN {}
                                   ELSE {"retry_synthesis"}
                     /\ UNCHANGED <<final_result, origin>>
            /\ UNCHANGED <<analysis_saved, history>>
       ELSE /\ calls' = <<>> /\ failed' = "none"
            /\ rerun' = FALSE /\ buttons' = {}
            /\ IF ~analysis_saved
               THEN /\ history' = Append(history,
                          [dossier |-> dossier,
                           council_results |-> council_results,
                           discussion_results |-> discussion_results,
                           validation_results |-> validation_results,
                           final_result |-> final_result,
                           run |-> run])
                    /\ analysis_saved' = TRUE
               ELSE UNCHANGED <<history, analysis_saved>>
            /\ UNCHANGED <<invoked, final_result, origin>>
    /\ UNCHANGED <<phase, dossier, council_results, discussion_results,
                   validation_results, viewing_history, run>>

Events == {"rerun", "begin", "back", "retry_research", "proceed_discussion",
           "retry_discussion", "proceed_synthesis", "retry_synthesis"}
          \cup SidebarEvents

Init == SessionStart /\ ParseIdle /\ CouncilIdle

Next ==
    \/ Reset
    \/ \E i \in 1..MaxRuns : ViewHistory(i)
    \/ \E e \in Events : Stopped(e)
    \/ \E e \in Events : RunHistoryView(e)
    \/ \E e \in Events : RunInput(e)
    \/ \E e \in Events : RunResearching(e)
    \/ \E e \in Events : RunAnalyzingNoDossier(e)
    \/ \E e \in Events : RunAnalyzing(e)
    \/ \E e \in Events : RunDiscussing(e)
    \/ \E e \in Events : RunComplete(e)

Spec == Init /\ [][Next]_vars

-----------------------------------------------------------------------------
(* Claims about the parsers, checked under SpecParse *)

ProposedTypes == {proposed[i].predicted_type : i \in DOMAIN proposed}

\* C1: whenever synthesize returns a verdict, its final_type is the
\* predicted_type of at least one of the three analyses it was given,
\* whatever text the model returned.
C1_FinalTypeWasProposed ==
    (component = "synthesize" /\ returned.kind = "return") =>
        /\ returned.type = "dict"
        /\ "final_type" \in DOMAIN returned.value
        /\ returned.value.final_type \in ProposedTypes

\* C8: for each of the four parsers no response text makes the parsing step
\* raise, and the value returned is always a record (a mapping).
C8_ParsingNeverRaises ==
    (response.ok /\ returned # NotCalled) =>
        /\ returned.kind = "return"
        /\ returned.type = "dict"

\* the record analyze builds when the response is malformed
DegradedAnalysis(name, content) ==
    [agent_name |-> name,
     predicted_type |-> "Unknown",
     confidence |-> 0,
     reasoning |-> "Failed to parse response",
     raw_response |-> content]

\* C9: whenever the response given to analyze cannot be decoded into a JSON
\* object, analyze returns the degraded record: 'Unknown', confidence 0,
\* 'Failed to parse response', the full response text and the agent's own
\* name, no field missing.
C9_MalformedGivesDegraded ==
    (/\ component = "analyze" /\ response.ok /\ returned # NotCalled
     /\ Loaded(response.content).type # "dict") =>
        /\ returned.kind = "return"
        /\ returned.type = "dict"
        /\ returned.value = DegradedAnalysis(self_name, response.content)

\* the confidence field of a record: 'confidence' of a SpecialistAnalysis,
\* 'confidence_score' of a Verdict
ConfidenceKey == IF component = "synthesize" THEN "confidence_score" ELSE "confidence"

\* C10: every record returned by analyze and every verdict returned by
\* synthesize carries a confidence that is present and an integer in [0,100],
\* for every model response.
C10_ConfidenceInRange ==
    (component \in {"analyze", "synthesize"} /\ returned.kind = "return") =>
        /\ returned.type = "dict"
        /\ ConfidenceKey \in DOMAIN returned.value
        /\ returned.value[ConfidenceKey] \in 0..100

-----------------------------------------------------------------------------
(* Claims about TheCouncil, checked under SpecCouncil *)

Finished == stage \in {"returned", "raised"}

\* C4: run_discussion never raises and returns a mapping whose keys are
\* exactly the three agent names; the slot of an agent whose
\* respond_to_discussion call failed holds 'Error during discussion: <cause>'
\* and the slot of every other agent holds exactly the text its call returned.
C4_DiscussionContainsFailures ==
    (method = "run_discussion" /\ Finished) =>
        /\ outcome.kind = "return"
        /\ DOMAIN outcome.value = AgentNames
        /\ \A a \in AgentNames :
              outcome.value[a] =
                 IF task.discussion[a].kind = "raise"
                 THEN DiscussionError(task.discussion[a].msg)
                 ELSE task.discussion[a].value

\* what the method gives its caller when no callback is supplied, for the
\* outcomes the model calls had
WithoutCallback ==
    CASE method = "deliberate" ->
           Return("tuple",
              [i \in 1..3 |->
                 DeliberateSlot(AgentOrder[i], task.analysis[AgentOrder[i]], "none")])
      [] method = "run_discussion" ->
           Return("dict",
              [a \in AgentNames |-> DiscussionSlot(a, task.discussion[a], "none")])
      [] method = "full_deliberation" ->
           IF validation.kind = "raise" THEN validation
           ELSE Return("tuple",
              [reinin |-> DeliberateSlot("Agent Reinin",
                              task.analysis["Agent Reinin"], "none"),
               quadra |-> DeliberateSlot("Agent Quadra",
                              task.analysis["Agent Quadra"], "none"),
               functions |-> DeliberateSlot("Agent Functions",
                              task.analysis["Agent Functions"], "none"),
               discussion |->
                  [a \in AgentNames |-> DiscussionSlot(a, task.discussion[a], "none")],
               validation |-> validation.value])

\* C5: progress callbacks are purely observational: for the same outcomes of
\* the model calls, deliberate, run_discussion and full_deliberation give
\* their caller the same value whether a callback is supplied or omitted,
\* whatever the callback does.
C5_CallbacksObserveOnly ==
    Finished => outcome = WithoutCallback

-----------------------------------------------------------------------------
(* Claims about the session flow, checked under Spec *)

Called(p) == p \in Range(calls)

\* the key was stored by a call that returned in the current run
StoredThisRun(k) == run >= 1 /\ origin[k] = run

\* C2: synthesize is never invoked for a run before both run_discussion and
\* run_validation have returned a result for that run; run_discussion is not
\* invoked before the three analyses of the run are stored; no analyze call
\* starts before research has returned.
C2_PhasesWaitForPredecessors ==
    /\ Called("synthesize") =>
          StoredThisRun("discussion_results") /\ StoredThisRun("validation_results")
    /\ Called("discussion") => StoredThisRun("council_results")
    /\ Called("deliberate") => StoredThisRun("dossier")

\* C3: within one run deliberate is invoked once and the stored
\* council_results are never replaced afterwards: once the analyses of the
\* run are stored, no script run invokes deliberate again and, short of
\* Reset, every script run leaves council_results as it is.
C3_OneAnalysisPerRun ==
    [][StoredThisRun("council_results") =>
          /\ ~Called("deliberate")'
          /\ (event' # "reset" => council_results' = council_results)]_vars

\* the session phase in which a call is made
PhaseOf(p) ==
    CASE p = "research" -> "researching"
      [] p = "deliberate" -> "analyzing"
      [] p \in {"discussion", "validation"} -> "discussing"
      [] p = "synthesize" -> "complete"

\* C6: when the model call of research, validation or synthesis raises, the
\* script run in which it raised leaves the session in the phase of that
\* call, and no model call of a later phase is made before the failed phase
\* has returned a result.
C6_FailureDoesNotAdvance ==
    /\ failed # "none" => phase = PhaseOf(failed)
    /\ Called("synthesize") => StoredThisRun("validation_results")

\* C7: a click on the retry button shown after a failed research, validation
\* or synthesis call re-invokes the model call of exactly that phase.
C7_RetryReinvokesFailedPhase ==
    /\ event = "retry_research" => calls = <<"research">>
    /\ event = "retry_discussion" => calls = <<"validation">>
    /\ event = "retry_synthesis" => calls = <<"synthesize">>

-----------------------------------------------------------------------------
(* Further claims about the parsers, checked under SpecParse *)

\* the call of the component has ended
Ended(c) == component = c /\ returned # NotCalled

\* C11: the record analyze returns has agent_name equal to the name of the
\* analysing instance, whatever agent_name the model's JSON carries, and
\* every other field of a parsed JSON object is copied unchanged; the record
\* deliberate stores in the slot of that agent for this outcome of the task
\* (returned or raised, with any callback) has the agent_name of the slot.
C11_AgentNameInjected ==
    Ended("analyze") =>
        /\ returned.kind = "return" =>
            /\ returned.value["agent_name"] = self_name
            /\ Loaded(response.content).type = "dict" =>
                LET parsed == Loaded(response.content).value IN
                /\ DOMAIN returned.value = DOMAIN parsed \cup {"agent_name"}
                /\ \A k \in DOMAIN parsed \ {"agent_name"} :
                      returned.value[k] = parsed[k]
        /\ \A cb \in CallbackKinds :
              DeliberateSlot(self_name, returned, cb)["agent_name"] = self_name

\* C11: the model's JSON names another agent and analyze has returned
C11_Witness ==
    /\ Ended("analyze") /\ returned.kind = "return"
    /\ Loaded(response.content).type = "dict"
    /\ "agent_name" \in DOMAIN Loaded(response.content).value
    /\ Loaded(response.content).value["agent_name"] # self_name
    /\ "confidence" \in DOMAIN returned.value

-----------------------------------------------------------------------------
(* Further claims about TheCouncil, checked under SpecCouncil *)

\* the callback given to the method does not interfere with the results
Harmless == callback \in {"none", "observe"}

\* the result of the agent's own task as the except branches render it
OwnAnalysis(a) ==
    IF task.analysis[a].kind = "return" THEN task.analysis[a].value
    ELSE AnalysisError(a, task.analysis[a].msg)

OwnResponse(a) ==
    IF task.discussion[a].kind = "return" THEN task.discussion[a].value
    ELSE DiscussionError(task.discussion[a].msg)

\* what the phases return as a function of the three task outcomes and the
\* callback alone, whatever the order in which the tasks completed
AnalysesByAgent ==
    [a \in AgentNames |-> DeliberateSlot(a, task.analysis[a], callback)]

ResponsesByAgent ==
    [a \in AgentNames |-> DiscussionSlot(a, task.discussion[a], callback)]

\* the tuple or mapping the finished phase handed back
ReturnedAnalyses ==
    IF method = "deliberate" THEN AllAnalyses(outcome.value)
    ELSE [a \in AgentNames |->
            CASE a = "Agent Reinin" -> outcome.value.reinin
              [] a = "Agent Quadra" -> outcome.value.quadra
              [] a = "Agent Functions" -> outcome.value.functions]

ReturnedResponses ==
    IF method = "run_discussion" THEN outcome.value ELSE outcome.value.discussion

\* C12: for fixed task outcomes the triple deliberate returns and the mapping
\* run_discussion returns do not depend on the order in which the three
\* tasks completed: each slot is determined by the outcome of that agent's
\* own task, and with a callback that does not interfere it is that agent's
\* own result.
C12_OrderIndependent ==
    stage = "returned" =>
        /\ method # "run_discussion" =>
            /\ ReturnedAnalyses = AnalysesByAgent
            /\ Harmless => \A a \in AgentNames : ReturnedAnalyses[a] = OwnAnalysis(a)
        /\ method # "deliberate" =>
            /\ ReturnedResponses = ResponsesByAgent
            /\ Harmless => \A a \in AgentNames : ReturnedResponses[a] = OwnResponse(a)

\* C12: deliberate returned after its tasks completed in the reverse of the
\* order of submission, with three different outcomes
C12_Witness ==
    /\ method = "deliberate" /\ stage = "returned" /\ Harmless
    /\ Len(cb_calls) = 3
    /\ cb_calls[1][2] = "Agent Functions"
    /\ cb_calls[2][2] = "Agent Quadra"
    /\ cb_calls[3][2] = "Agent Reinin"
    /\ task.analysis["Agent Reinin"] # task.analysis["Agent Quadra"]
    /\ task.analysis["Agent Quadra"] # task.analysis["Agent Functions"]

\* the fan-outs a method runs
FanOutsOf(m) ==
    CASE m = "deliberate" -> {"analysis"}
      [] m = "run_discussion" -> {"discussion"}
      [] m = "full_deliberation" -> FanOuts
      [] OTHER -> {}

OwnResult(f, a) == IF f = "analysis" THEN OwnAnalysis(a) ELSE OwnResponse(a)

\* C13: during one execution of deliberate or run_discussion each key of the
\* results mapping is written exactly once, with the outcome of the task of
\* that agent: never a second time, and by the time the method has returned
\* every key of its fan-outs has its one write.
C13_EachKeyWrittenOnce ==
    \A f \in FanOuts : \A a \in AgentNames :
        /\ Len(writes[f][a]) <= 1
        /\ Len(writes[f][a]) = 1 => writes[f][a][1] = OwnResult(f, a)
        /\ (stage = "returned" /\ f \in FanOutsOf(method)) => Len(writes[f][a]) = 1

-----------------------------------------------------------------------------
(* SpecDeliberate: one call of TheCouncil.deliberate, with the main thread  *)
(* scheduled: the as_completed loop hands over every completed future and   *)
(* the return statement is reached when the loop ends.  No fairness is      *)
(* assumed of the tasks themselves (a model call may hang).                 *)

InitDeliberate == InitCouncil /\ method = "deliberate"

NextDeliberate ==
    \/ Submit
    \/ \E a \in AgentNames : ResolveAnalyze(a)
    \/ \E a \in AgentNames : CollectAnalysis(a)
    \/ ReturnDeliberate

SpecDeliberate ==
    /\ InitDeliberate /\ [][NextDeliberate]_vars
    /\ WF_vars(\E a \in AgentNames : CollectAnalysis(a))
    /\ WF_vars(ReturnDeliberate)

\* the three analyze tasks have resolved, by returning or by raising
AllResolved ==
    /\ stage = "analysis"
    /\ \A a \in AgentNames : task.analysis[a].kind \in {"return", "raise"}

\* the tuple deliberate returned: three non-empty records in the order
\* Reinin, Quadra, Functions; the record of a task that raised carries the
\* failure description and confidence 0
GoodTriple ==
    /\ outcome.kind = "return"
    /\ DOMAIN outcome.value = 1..3
    /\ \A i \in 1..3 :
        /\ outcome.value[i] # EmptyDict
        /\ outcome.value[i]["agent_name"] = AgentOrder[i]
        /\ task.analysis[AgentOrder[i]].kind = "raise" =>
            /\ outcome.value[i]["reasoning"] =
                  <<"Error during analysis: ", task.analysis[AgentOrder[i]].msg>>
            /\ outcome.value[i]["confidence"] = 0

\* C14: deliberate never raises; once all three analyze tasks have resolved
\* it terminates, and what it returns is three non-empty records in the
\* order (Reinin, Quadra, Functions) for every subset of failed tasks, a
\* failed task giving a record with reasoning "Error during analysis:
\* <cause>" and confidence 0.
C14_DeliberateAlwaysReturns ==
    /\ [](outcome.kind # "raise" /\ stage # "raised")
    /\ [](stage = "returned" => GoodTriple)
    /\ (AllResolved ~> stage = "returned")

\* C14: deliberate has returned although two of its three tasks raised
C14_Witness ==
    /\ method = "deliberate" /\ stage = "returned"
    /\ task.analysis["Agent Reinin"].kind = "raise"
    /\ task.analysis["Agent Functions"].kind = "raise"
    /\ task.analysis["Agent Quadra"].kind = "return"
    /\ outcome.value[1]["predicted_type"] = "Error"
    /\ outcome.value[2]["predicted_type"] # "Error"

\* positions in cb_calls of the callback calls made for unit a of fan-out f
CallsFor(f, a) ==
    {i \in DOMAIN cb_calls : cb_calls[i][1] = f /\ cb_calls[i][2] = a}

\* what the returned phase holds in the slot of unit a of fan-out f
ReturnedSlot(f, a) ==
    IF f = "analysis" THEN ReturnedAnalyses[a] ELSE ReturnedResponses[a]

\* C15: when a progress callback is supplied, by the time the phase returns
\* it has been invoked exactly once for each of the three units of each
\* fan-out, a unit whose task failed included, with the unit's agent name
\* and the result stored in its slot; full_deliberation has invoked the
\* validation callback exactly once, with the validation report.
C15_CallbackOncePerUnit ==
    (stage = "returned" /\ callback # "none") =>
        /\ \A f \in FanOutsOf(method) : \A a \in AgentNames :
            /\ Cardinality(CallsFor(f, a)) = 1
            /\ Harmless => \A i \in CallsFor(f, a) : cb_calls[i][3] = ReturnedSlot(f, a)
        /\ method = "full_deliberation" =>
            /\ Cardinality(CallsFor("validation", "The Validator")) = 1
            /\ Harmless => \A i \in CallsFor("validation", "The Validator") :
                              cb_calls[i][3] = outcome.value.validation

-----------------------------------------------------------------------------
(* Claims about degraded records, checked under SpecParse *)

\* json.loads raised JSONDecodeError on what the parser extracted
Unparsable == response.ok /\ Loaded(response.content).type = "JSONDecodeError"

\* t is text[:n]: the longest prefix of whole tokens within n characters,
\* followed by the mark of a cut token when a token straddles the limit
IsFirstChars(t, text, n) ==
    LET cut == t # <<>> /\ t[Len(t)] = "<cut>"
        whole == IF cut THEN SubSeq(t, 1, Len(t) - 1) ELSE t
    IN
    /\ Len(whole) <= Len(text)
    /\ whole = SubSeq(text, 1, Len(whole))
    /\ Chars(whole) <= n
    /\ IF cut
       THEN /\ Len(whole) < Len(text)
            /\ Chars(whole) < n
            /\ Chars(whole) + Width(text[Len(whole) + 1]) > n
       ELSE whole = text \/ Chars(whole) = n

\* C16: when the model's response cannot be parsed as JSON, research does
\* not raise and returns a degraded dossier: character_name and media_source
\* are the arguments of the call, the fact list has exactly one element, the
\* first 500 characters of the raw response, the quote list is empty and the
\* summary records the parse failure.
C16_DegradedDossier ==
    (Ended("research") /\ Unparsable) =>
        /\ returned.kind = "return" /\ returned.type = "dict"
        /\ returned.value["character_name"] = "X"
        /\ returned.value["media_source"] = "Y"
        /\ Len(returned.value["behavioral_facts"]) = 1
        /\ IsFirstChars(returned.value["behavioral_facts"][1], response.content,
                        FallbackChars)
        /\ returned.value["key_quotes"] = <<>>
        /\ returned.value["summary"] = "Failed to parse structured response"

\* C16: research has returned for an unparsable response longer than 500
\* characters
C16_Witness ==
    /\ Ended("research") /\ Unparsable
    /\ Chars(response.content) > FallbackChars
    /\ returned.kind = "return"
    /\ returned.value["behavioral_facts"][1] # response.content

-----------------------------------------------------------------------------
(* SpecResearch: one call of ScoutAgent.research, web search included *)

\* answers of the model to the Scout's prompt
ResearchResponses ==
    { [ok |-> TRUE, content |-> <<Fence, "json", "D_dossier", Fence>>],
      [ok |-> TRUE, content |-> <<"txt">>],
      [ok |-> TRUE, content |-> <<"{}">>],
      [ok |-> TRUE, content |-> <<"null">>],
      [ok |-> FALSE, cause |-> "timeout"] }

InitResearch ==
    /\ component = "research"
    /\ self_name = "none"
    /\ response \in ResearchResponses
    /\ proposed = <<>>
    /\ returned = NotCalled
    /\ queries \in [1..NumQueries -> QueryOutcomes]
    /\ prompt = None
    /\ invocations = 0
    /\ sent = {}
    /\ CouncilIdle
    /\ SessionIdle

\* research(character_name, media_source): search, format, one model call,
\* parse
ResearchCall ==
    /\ component = "research" /\ returned = NotCalled
    /\ queries # <<>>
    /\ prompt' = user_prompt("X", "Y", queries)
    /\ Invoke(messages("research", "none"))
    /\ returned' = research("X", "Y", response)
    /\ UNCHANGED <<component, self_name, response, proposed, queries,
                   councilVars, sessionVars>>

NextResearch == ResearchCall

SpecResearch == InitResearch /\ [][NextResearch]_vars

\* the search step yields zero results: no query gave a result with an href
ZeroResults ==
    \A i \in DOMAIN queries :
        queries[i].kind = "return" =>
            \A j \in DOMAIN queries[i].value :
                Get(queries[i].value[j], "href", "") = ""

\* the prompt tells the model to fall back on its own knowledge
FallbackPrompt ==
    /\ Len(prompt.results) = 1
    /\ prompt.results[1].kind = "no results"
    /\ prompt.results[1].text[3] = "create a dossier based on your existing knowledge"

\* C17: when the search step yields zero results (no hits, or every query
\* failing), research still issues exactly one model call, with a prompt
\* that tells the model to fall back on its own knowledge, and, the model
\* having answered, returns a non-empty dossier, never an empty or null
\* value.
C17_ZeroResultsStillDossier ==
    (Ended("research") /\ queries # <<>> /\ ZeroResults) =>
        /\ invocations = 1
        /\ FallbackPrompt
        /\ response.ok =>
            /\ returned.kind = "return"
            /\ returned.type = "dict"
            /\ returned.value # [k \in {} |-> None]

-----------------------------------------------------------------------------
(* SpecRoundTrip: each parser applied to a JSON object in a json fence *)

\* serialisations of the JSON objects the model may answer a component with
JsonTexts(c) ==
    {<<d>> : d \in DocsFor(c) \cap ObjectDocs} \cup {TickedDoc}

\* white space (a newline) between the fence and the object
Pads == {<<>>, <<" ">>}
\* text of the model before the fenced block
Leads == {<<>>, <<"txt">>}

\* the object J of a response in a json fenced block
Fenced(lead, before, J, after) ==
    lead \o <<Fence, "json">> \o before \o J \o after \o <<Fence>>

FencedResponses(c) ==
    { [ok |-> TRUE, content |-> Fenced(lead, before, J, after)] :
        lead \in Leads, before \in Pads, J \in JsonTexts(c), after \in Pads }

InitRoundTrip ==
    /\ component \in {"research", "analyze", "validate", "synthesize"}
    /\ self_name \in (IF component = "analyze" THEN AgentNames ELSE {"none"})
    /\ response \in FencedResponses(component)
    /\ proposed \in (IF component = "synthesize" THEN ProposedTriples ELSE {<<>>})
    /\ returned = NotCalled
    /\ queries = <<>> /\ prompt = None /\ invocations = 0 /\ sent = {}
    /\ CouncilIdle
    /\ SessionIdle

SpecRoundTrip == InitRoundTrip /\ [][NextParse]_vars

\* the call of component c on the response resp
Parse(c, name, resp) ==
    CASE c = "research" -> research("X", "Y", resp)
      [] c = "analyze" -> analyze(name, resp)
      [] c = "validate" -> validate(resp)
      [] c = "synthesize" -> synthesize(resp)

\* C18: for every JSON object J, objects whose string values contain three
\* backticks included, each parser returns for a response that is J in a
\* json fenced block what it returns for the response that is J unfenced,
\* and that is the object J.
C18_FenceRoundTrip ==
    \A c \in {"research", "analyze", "validate", "synthesize"} :
      \A J \in JsonTexts(c) : \A before, after \in Pads :
        (Ended(c) /\ response.content = Fenced(<<>>, before, J, after)) =>
            /\ returned = Parse(c, self_name, [ok |-> TRUE, content |-> J])
            /\ returned.kind = "return"
            /\ \A k \in DOMAIN json_loads(J).value :
                  k # "agent_name" => returned.value[k] = json_loads(J).value[k]

\* the same for the objects without backticks in their values, and with
\* text of the model in front of the fenced block
RoundTripOfPlainObjects ==
    \A c \in {"research", "analyze", "validate", "synthesize"} :
      \A J \in JsonTexts(c) \ {TickedDoc} :
        \A lead \in Leads : \A before, after \in Pads :
          (Ended(c) /\ response.content = Fenced(lead, before, J, after)) =>
              returned = Parse(c, self_name, [ok |-> TRUE, content |-> J])

-----------------------------------------------------------------------------
(* Transport failures of the single-call phases, checked under SpecParse *)

\* TheCouncil.full_deliberation without callbacks, for the answers the model
\* gives to the three analysis prompts, the three discussion prompts and the
\* validation prompt
full_deliberation(aresps, dresps, vresp) ==
    LET triple == deliberate(aresps)
        all_analyses == AllAnalyses(triple)
        discussion == run_discussion(all_analyses, dresps)
        report == run_validation(all_analyses, vresp)
    IN
    IF report.kind = "raise" THEN report
    ELSE Return("tuple",
           [reinin |-> triple[1], quadra |-> triple[2], functions |-> triple[3],
            discussion |-> discussion, validation |-> report.value])

\* the model call of the component raised
TransportFailure == ~response.ok

\* C19: a transport failure inside research, validate (run_validation) or
\* synthesize is not converted to a degraded record: the call raises the
\* failure to its caller and returns nothing; a failure of the validation
\* call inside full_deliberation makes full_deliberation raise it, without
\* returning the analyses and the discussion it computed.
C19_TransportFailureRaises ==
    \A c \in {"research", "validate", "synthesize"} :
        (Ended(c) /\ TransportFailure) =>
            /\ returned = Raise("Exception", response.cause)
            /\ c = "validate" =>
                \A aresps \in SessionAnalysis : \A dresps \in SessionDiscussion :
                    /\ run_validation(AllAnalyses(deliberate(aresps)), response) = returned
                    /\ full_deliberation(aresps, dresps, response) = returned

\* C19: the validator's model call has raised and validate has ended
C19_Witness ==
    /\ Ended("validate") /\ TransportFailure
    /\ returned.kind = "raise"

\* C20: when the validator's response cannot be parsed as JSON, validate
\* does not raise and returns a report with errors_found == [] and
\* verified_correct == [] whose summary records the parse failure (the
\* notice, then the first 200 characters of the response).
C20_DegradedReport ==
    (Ended("validate") /\ Unparsable) =>
        /\ returned.kind = "return" /\ returned.type = "dict"
        /\ DOMAIN returned.value = {"errors_found", "verified_correct", "summary"}
        /\ returned.value["errors_found"] = <<>>
        /\ returned.value["verified_correct"] = <<>>
        /\ LET summary == returned.value["summary"] IN
            /\ Len(summary) >= 2
            /\ summary[1] = "Failed to parse validation response: "
            /\ summary[Len(summary)] = "..."
            /\ IsFirstChars(SubSeq(summary, 2, Len(summary) - 1),
                            response.content, SummaryChars)

\* C20: validate has returned for an unparsable response longer than 200
\* characters
C20_Witness ==
    /\ Ended("validate") /\ Unparsable
    /\ Chars(response.content) > SummaryChars
    /\ returned.kind = "return"
    /\ returned.value["errors_found"] = <<>>

\* C21: when the synthesizer's response cannot be parsed as JSON, synthesize
\* does not raise and returns a verdict with final_type "Unknown",
\* confidence_score 0, a confidence_explanation noting the parse failure, an
\* empty key_traits list and raw_response equal to the full response text.
C21_DegradedVerdict ==
    (Ended("synthesize") /\ Unparsable) =>
        /\ returned.kind = "return" /\ returned.type = "dict"
        /\ returned.value["final_type"] = "Unknown"
        /\ returned.value["confidence_score"] = 0
        /\ returned.value["confidence_explanation"] = "Failed to parse response"
        /\ returned.value["key_traits"] = <<>>
        /\ returned.value["raw_response"] = response.content

\* C21: synthesize has returned for an unparsable response longer than 500
\* characters
C21_Witness ==
    /\ Ended("synthesize") /\ Unparsable
    /\ Chars(response.content) > FallbackChars
    /\ returned.kind = "return"
    /\ returned.value["summary"] # response.content

-----------------------------------------------------------------------------
(* Claims about the worker pool and the model calls, under SpecCouncil *)

\* ThreadPoolExecutor(max_workers=3)
MaxWorkers == 3

\* the tasks handed to the pool for fan-out f so far
Submitted(f) == {a \in AgentNames : task[f][a] # NotCalled}

\* the tasks whose model call has not come back
Outstanding == {fa \in FanOuts \X AgentNames : task[fa[1]][fa[2]] = Running}

\* C22: at every moment of a fan-out phase at most 3 model calls are
\* outstanding, exactly 3 tasks are submitted per phase, one per specialist,
\* and the phase does not return (nor does full_deliberation go on to the
\* next phase) while any of its tasks is still running.
C22_ThreeTasksPerPhase ==
    /\ Cardinality(Outstanding) <= MaxWorkers
    /\ \A f \in FanOuts :
        /\ Submitted(f) \in {{}, AgentNames}
        /\ stage = f => Cardinality(Submitted(f)) = 3
        /\ Submitted(f) # {} => f \in FanOutsOf(method)
    /\ stage \in {"returned", "raised"} => Outstanding = {}
    /\ stage = "discussion" =>
          \A a \in AgentNames : task.analysis[a] # Running

\* C22: the three discussion calls of full_deliberation are outstanding
\* after its three analysis calls came back
C22_Witness ==
    /\ method = "full_deliberation" /\ stage = "discussion"
    /\ Cardinality(Outstanding) = 3
    /\ Submitted("analysis") = AgentNames

-----------------------------------------------------------------------------
(* SpecCalls: one call of any method that talks to the model: research,     *)
(* analyze, validate or synthesize on its own, or a method of TheCouncil    *)

\* answers of the model to a single call of component c
OneCallResponses(c) ==
    { [ok |-> TRUE, content |-> <<d>>] : d \in DocsFor(c) } \cup
    { [ok |-> TRUE, content |-> <<Fence, "json", "txt", Fence>>],
      [ok |-> TRUE, content |-> <<"txt">>],
      [ok |-> FALSE, cause |-> "timeout"] }

InitOneCall ==
    /\ component \in {"research", "analyze", "validate", "synthesize"}
    /\ self_name \in (IF component = "analyze" THEN AgentNames ELSE {"none"})
    /\ response \in OneCallResponses(component)
    /\ proposed \in (IF component = "synthesize" THEN ProposedTriples ELSE {<<>>})
    /\ returned = NotCalled
    /\ queries = <<>> /\ prompt = None /\ invocations = 0 /\ sent = {}
    /\ CouncilIdle
    /\ SessionIdle

InitCalls == InitOneCall \/ InitCouncil

NextCalls == NextParse \/ NextCouncil

SpecCalls == InitCalls /\ [][NextCalls]_vars

\* the tasks of the fan-outs whose model call has come back
Resolved ==
    {fa \in FanOuts \X AgentNames :
        task[fa[1]][fa[2]].kind \in {"return", "raise"}}

\* C23: each invocation of research, analyze, respond_to_discussion,
\* validate and synthesize issues exactly one model call, made of one system
\* message followed by one user message, and never a second one, neither
\* after a transport failure nor after malformed output; one
\* full_deliberation issues exactly 7 model calls, deliberate and
\* run_discussion 3 each.
C23_OneCallPerInvocation ==
    /\ \A msgs \in sent :
          Len(msgs) = 2 /\ msgs[1].type = "system" /\ msgs[2].type = "human"
    /\ (component # "none" /\ returned # NotCalled) =>
          invocations = 1 /\ sent = {messages(component, self_name)}
    /\ method # "none" =>
        /\ invocations = Cardinality(Resolved) + (IF validation = NotCalled THEN 0 ELSE 1)
        /\ Cardinality(sent) = invocations
        /\ stage \in {"returned", "raised"} =>
              invocations = (CASE method = "full_deliberation" -> 7
                               [] OTHER -> 3)

\* C23: full_deliberation has ended after a model call raised and another
\* was answered with prose
C23_Witness ==
    /\ method = "full_deliberation" /\ stage \in {"returned", "raised"}
    /\ invocations = 7
    /\ task.analysis["Agent Reinin"].kind = "raise"
    /\ task.analysis["Agent Quadra"].kind = "return"
    /\ task.analysis["Agent Quadra"].value["predicted_type"] = "Unknown"
    /\ task.discussion["Agent Functions"].kind = "raise"

-----------------------------------------------------------------------------
(* SpecSearch: one call of search_character *)

\* max_results=5 of each ddgs.text query
PerQuery == 5

\* URLs of the web; Urls[(i - 1) * PerQuery + j] is the j-th page only
\* query i finds
Urls == << "u01", "u02", "u03", "u04", "u05", "u06", "u07", "u08", "u09",
           "u10", "u11", "u12", "u13", "u14", "u15", "u16", "u17", "u18",
           "u19", "u20", "u21", "u22", "u23", "u24", "u25", "u26", "u27",
           "u28", "u29", "u30", "u31", "u32", "u33", "u34", "u35" >>

Fresh(i, n) == [j \in 1..n |-> Hit(Urls[(i - 1) * PerQuery + j])]

\* what query i may get: an exception, nothing, five or four pages of its
\* own, or pages the first query finds too and a result without href
SearchOutcomes(i) ==
    { Raise("Exception", "ratelimit"),
      Return("list", <<>>),
      Return("list", Fresh(i, 5)),
      Return("list", Fresh(i, 4)),
      Return("list", <<Hit("u02"), NoHref, Hit("u01"), Hit("u02")>>) }

InitSearch ==
    /\ component = "search_character"
    /\ self_name = "none"
    /\ response = [ok |-> FALSE, cause |-> "none"]
    /\ proposed = <<>>
    /\ returned = NotCalled
    /\ \E q1 \in SearchOutcomes(1), q2 \in SearchOutcomes(2),
          q3 \in SearchOutcomes(3), q4 \in SearchOutcomes(4),
          q5 \in SearchOutcomes(5), q6 \in SearchOutcomes(6),
          q7 \in SearchOutcomes(7) :
            queries = <<q1, q2, q3, q4, q5, q6, q7>>
    /\ prompt = None
    /\ invocations = 0
    /\ sent = {}
    /\ CouncilIdle
    /\ SessionIdle

SearchCharacter ==
    /\ component = "search_character" /\ returned = NotCalled
    /\ returned' = Return("list", search_character(queries))
    /\ UNCHANGED <<component, self_name, response, proposed, queries, prompt,
                   invocations, sent, councilVars, sessionVars>>

NextSearch == SearchCharacter

SpecSearch == InitSearch /\ [][NextSearch]_vars

\* the results of all queries that returned, in the order of the queries
RECURSIVE Flat(_)
Flat(qs) ==
    IF qs = <<>> THEN <<>>
    ELSE (IF Head(qs).kind = "return" THEN Head(qs).value ELSE <<>>) \o Flat(Tail(qs))

Href(result) == Get(result, "href", "")

\* the first position of the URL in a list of results
FirstPos(url, list) == Min({i \in DOMAIN list : Href(list[i]) = url})

\* the queries the loop sends to the search engine: those reached with
\* fewer than max_results results gathered
QueriesIssued(qs) ==
    {i \in DOMAIN qs : Len(Gather(SubSeq(qs, 1, i - 1), 1, <<>>)) < MaxResults}

\* C24: for every sequence of per-query result lists search_character
\* returns a list of at most max_results results whose URLs are non-empty
\* and pairwise distinct, in the order of their first occurrence; it issues
\* at most 7 queries, each for at most 5 results, and returns the empty
\* list, without raising, when no query yields a result.
C24_SearchResults ==
    Ended("search_character") =>
        LET r == returned.value
            all == Flat(queries)
        IN
        /\ returned.kind = "return"
        /\ Len(r) <= MaxResults
        /\ \A i \in DOMAIN r :
            /\ Href(r[i]) # ""
            /\ \E k \in DOMAIN all : Href(all[k]) = Href(r[i])
            /\ r[i] = all[FirstPos(Href(r[i]), all)]
        /\ \A i, j \in DOMAIN r :
              i < j => FirstPos(Href(r[i]), all) < FirstPos(Href(r[j]), all)
        /\ Len(r) < MaxResults =>
              \A i \in QueriesIssued(queries) :
                  queries[i].kind = "return" =>
                      \A k \in DOMAIN queries[i].value :
                          Href(queries[i].value[k]) # "" =>
                              \E m \in DOMAIN r : Href(r[m]) = Href(queries[i].value[k])
        /\ Cardinality(QueriesIssued(queries)) <= NumQueries
        /\ \A i \in QueriesIssued(queries) :
              queries[i].kind = "return" => Len(queries[i].value) <= PerQuery
        /\ ZeroResults => r = <<>>

\* C24: more than max_results distinct pages were gathered, duplicates and a
\* result without URL among them, and the list was cut
C24_Witness ==
    /\ Ended("search_character")
    /\ Len(returned.value) = MaxResults
    /\ Len(Unique(Gather(queries, 1, <<>>), {})) > MaxResults
    /\ queries[1].kind = "raise"
    /\ \E i \in DOMAIN queries : queries[i].kind = "return" /\ NoHref \in Range(queries[i].value)

-----------------------------------------------------------------------------
(* SpecReuse: one TheCouncil instance whose phase methods the caller invokes *)
(* one after the other, in any order, on inputs the caller kept              *)

\* phase-method calls made on one instance
MaxUses == 2

ReuseMethods == Methods \cup {"run_validation"}

\* TheCouncil.run_validation called on its own
RunValidation ==
    /\ method = "run_validation"
    /\ stage = "called"
    /\ \E resp \in ValidationResponses :
        LET v == validate(resp) IN
        /\ validation' = v
        /\ outcome' = v
        /\ stage' = IF v.kind = "raise" THEN "raised" ELSE "returned"
    /\ Invoke(messages_about("validate", "none", analyses))
    /\ UNCHANGED <<method, callback, task, done, results, writes, cb_calls,
                   analyses, parseArgs, sessionVars, instanceVars>>

\* the all_analyses mappings the caller has at hand: one it stored earlier,
\* and the one built from the triple deliberate has just returned
Persisted ==
    GivenAnalyses \cup
    (IF method = "deliberate" /\ stage = "returned"
     THEN {AllAnalyses(outcome.value)} ELSE {})

\* the caller, after a call has returned or raised, calls a phase method of
\* the same instance again; every local of the earlier call is gone
Reinvoke ==
    /\ stage \in {"returned", "raised"}
    /\ uses < MaxUses
    /\ uses' = uses + 1
    \* after full_deliberation the caller goes on with the later phases
    /\ method' \in (IF method = "full_deliberation"
                    THEN {"run_discussion", "run_validation"} ELSE ReuseMethods)
    /\ callback' \in (IF method' = "run_validation" THEN {"none"} ELSE CallbackKinds)
    /\ analyses' \in (IF method' \in {"run_discussion", "run_validation"}
                      THEN Persisted ELSE {EmptyDict})
    /\ given' = [dossier |-> given.dossier,
                 all_analyses |-> IF method' \in {"run_discussion", "run_validation"}
                                  THEN analyses' ELSE None]
    /\ stage' = "called"
    /\ task' = NoTasks
    /\ done' = {}
    /\ results' = EmptyDict
    /\ writes' = NoWrites
    /\ cb_calls' = <<>>
    /\ validation' = NotCalled
    /\ outcome' = NotCalled
    /\ UNCHANGED <<council, parseVars, sessionVars>>

InitReuse ==
    /\ method \in ReuseMethods
    /\ stage = "called"
    /\ callback \in (IF method = "run_validation" THEN {"none"} ELSE CallbackKinds)
    /\ task = NoTasks
    /\ done = {}
    /\ results = EmptyDict
    /\ writes = NoWrites
    /\ cb_calls = <<>>
    /\ analyses \in (IF method \in {"run_discussion", "run_validation"}
                     THEN GivenAnalyses ELSE {EmptyDict})
    /\ validation = NotCalled
    /\ outcome = NotCalled
    /\ council = NewCouncil
    /\ given = [dossier |-> GivenDossier,
                all_analyses |-> IF method \in {"run_discussion", "run_validation"}
                                 THEN analyses ELSE None]
    /\ uses = 1
    /\ ParseIdle
    /\ SessionIdle

NextReuse == NextCouncil \/ RunValidation \/ Reinvoke

SpecReuse == InitReuse /\ [][NextReuse]_vars

\* what a returning call hands back, from its own arguments (the callback,
\* all_analyses) and the outcomes of its own model calls
ExpectedOutcome ==
    CASE method = "deliberate" -> Return("tuple", ResultTuple(AnalysesByAgent))
      [] method = "run_discussion" -> Return("dict", ResponsesByAgent)
      [] method = "run_validation" -> validation
      [] OTHER ->
           Return("tuple",
                  [reinin |-> AnalysesByAgent["Agent Reinin"],
                   quadra |-> AnalysesByAgent["Agent Quadra"],
                   functions |-> AnalysesByAgent["Agent Functions"],
                   discussion |-> ResponsesByAgent,
                   validation |-> validation.value])

\* one step of a call leaves the instance, the dossier and the all_analyses
\* mapping of the caller as they were, and a call that returns returns what
\* its own arguments and model calls determine
StatelessStep ==
    /\ council' = council
    /\ given'.dossier = given.dossier
    /\ uses' = uses =>
        /\ given' = given
        /\ method \in {"run_discussion", "run_validation"} =>
              analyses = given.all_analyses /\ analyses' = analyses
    /\ (stage' = "returned" /\ stage # "returned") => outcome' = ExpectedOutcome'

\* C25: deliberate, run_discussion, run_validation and full_deliberation
\* leave the TheCouncil instance (agents, agent_map, validator), the dossier
\* and the all_analyses mapping they are given unchanged, so that a phase
\* method called on its own, again, or after any other on inputs the caller
\* kept returns what its arguments and the model responses determine.
C25_CouncilHoldsNoRunState == [][StatelessStep]_vars

\* C25: the second call on the instance, run_discussion on the analyses the
\* caller kept from the deliberate call before it, has returned
C25_Witness ==
    /\ uses = 2
    /\ method = "run_discussion" /\ stage = "returned"
    /\ analyses \notin GivenAnalyses
    /\ council = NewCouncil

-----------------------------------------------------------------------------
(* SpecPrompts: validate and respond_to_discussion called on an             *)
(* all_analyses mapping, with the prompt they build                         *)

\* one piece of a prompt: fixed text, or a value embedded under a label
Part(label, value) == [label |-> label, value |-> value]

\* json.dumps(value, indent=2): the text of the value
json_dumps(value) == [json_text_of |-> value]

\* Python truth of a payload: {} and None are false
Truthy(v) == v # EmptyDict /\ v # None

\* the keys of all_analyses in insertion order
Keys(all_analyses) == SelectSeq(AgentOrder, LAMBDA a : a \in DOMAIN all_analyses)

\* the key under which each specialist's system prompt asks for its
\* structured analysis
LensKey(a) ==
    CASE a = "Agent Reinin" -> "analysis"
      [] a = "Agent Quadra" -> "quadra_analysis"
      [] a = "Agent Functions" -> "function_analysis"

LensPayload(a) ==
    CASE a = "Agent Reinin" -> [static_dynamic |-> [pole |-> "Static", evidence |-> "e1"]]
      [] a = "Agent Quadra" -> [beta_fit |-> [score |-> 80, evidence |-> "e2"]]
      [] a = "Agent Functions" -> [likely_base |-> [function |-> "Se", evidence |-> "e3"]]

\* analyses agent a may have in all_analyses: a full answer, an answer with
\* an empty payload, the error record of deliberate, an empty object
AnalysesOf(a) ==
    { SetItem([predicted_type |-> "AAA", confidence |-> 70, reasoning |-> "r",
               agent_name |-> a], LensKey(a), LensPayload(a)),
      SetItem([predicted_type |-> "BBB", confidence |-> 40, reasoning |-> "q",
               agent_name |-> a], LensKey(a), EmptyDict),
      [agent_name |-> a, predicted_type |-> "Error", confidence |-> 0,
       reasoning |-> "Error during analysis: timeout"],
      EmptyDict }

PromptInputs ==
    UNION { {f \in [S -> UNION {AnalysesOf(a) : a \in AgentNames}] :
                \A a \in S : f[a] \in AnalysesOf(a)} : S \in SUBSET AgentNames }

\* the part of claims_text one iteration of the loop of validate adds
ClaimsOf(agent_name, analysis) ==
    LET pred_type == Get(analysis, "predicted_type", "Unknown")
        reasoning == Get(analysis, "reasoning", "No reasoning")
        function_analysis == Get(analysis, "function_analysis", EmptyDict)
        quadra_analysis == Get(analysis, "quadra_analysis", EmptyDict)
    IN  << Part("agent_name", agent_name),
           Part("Predicted", pred_type),
           Part("Reasoning", reasoning) >>
        \o (IF Truthy(function_analysis)
            THEN <<Part("Function Analysis", json_dumps(function_analysis))>> ELSE <<>>)
        \o (IF Truthy(quadra_analysis)
            THEN <<Part("Quadra Analysis", json_dumps(quadra_analysis))>> ELSE <<>>)

RECURSIVE claims_text(_, _)
claims_text(all_analyses, names) ==
    IF names = <<>> THEN <<>>
    ELSE ClaimsOf(Head(names), all_analyses[Head(names)])
         \o claims_text(all_analyses, Tail(names))

\* validation_prompt of ValidatorAgent.validate
validation_prompt(all_analyses) ==
    <<Part("text", "Review the following analyses for FACTUAL ACCURACY.")>>
    \o claims_text(all_analyses, Keys(all_analyses))
    \o <<Part("text", "Check for errors in: ... Respond in the specified JSON format.")>>

\* [SystemMessage(content=...), HumanMessage(content=user_text)]
messages_with(c, name, user_text) ==
    << [type |-> "system", content |-> SystemPrompt(c, name), of |-> name],
       [type |-> "human", content |-> user_text, of |-> name] >>

\* other_analyses without the test on the key
other_analyses_unfiltered(name, all_analyses) == Keys(all_analyses)

\* {k: v for k, v in all_analyses.items() if k != self.name}, as its keys
other_analyses(name, all_analyses) ==
    SelectSeq(Keys(all_analyses), LAMBDA k : k # name)

\* what one iteration of the loop of respond_to_discussion adds
PredictionOf(agent_name, analysis) ==
    << Part("predicted by", agent_name),
       Part("predicted", Get(analysis, "predicted_type", "Unknown")),
       Part("confidence", Get(analysis, "confidence", 0)),
       Part("Their reasoning", Get(analysis, "reasoning", "No reasoning provided")) >>

RECURSIVE other_predictions_text(_, _)
other_predictions_text(all_analyses, names) ==
    IF names = <<>> THEN <<>>
    ELSE PredictionOf(Head(names), all_analyses[Head(names)])
         \o other_predictions_text(all_analyses, Tail(names))

\* COUNTER_ARGUMENT_PROMPT.format(agent_name=..., own_prediction=...,
\* own_reasoning=..., other_predictions=...)
formatted_prompt(name, all_analyses) ==
    LET own_analysis == Get(all_analyses, name, EmptyDict) IN
    << Part("You are", name),
       Part("Your previous prediction", Get(own_analysis, "predicted_type", "Unknown")),
       Part("Your reasoning", Get(own_analysis, "reasoning", "No reasoning provided")),
       Part("text", "Other predictions:") >>
    \o other_predictions_text(all_analyses, other_analyses(name, all_analyses))
    \o <<Part("text", "TASK: Provide a thoughtful counter-argument or agreement. ...")>>

InitPrompts ==
    /\ component \in {"validate", "respond_to_discussion"}
    /\ self_name \in (IF component = "validate" THEN {"none"} ELSE AgentNames)
    /\ response \in (IF component = "validate" THEN ValidationResponses
                     ELSE DiscussionResponses)
    /\ proposed = <<>>
    /\ returned = NotCalled
    /\ queries = <<>>
    /\ prompt = None
    /\ invocations = 0
    /\ sent = {}
    /\ method = "none"
    /\ stage = "none"
    /\ callback = "none"
    /\ task = NoTasks
    /\ done = {}
    /\ results = EmptyDict
    /\ writes = NoWrites
    /\ cb_calls = <<>>
    /\ analyses \in PromptInputs
    /\ validation = NotCalled
    /\ outcome = NotCalled
    /\ council = NewCouncil
    /\ given = [dossier |-> GivenDossier, all_analyses |-> analyses]
    /\ uses = 0
    /\ SessionIdle

\* ValidatorAgent.validate(all_analyses)
ValidateAnalyses ==
    /\ component = "validate" /\ returned = NotCalled
    /\ prompt' = validation_prompt(analyses)
    /\ Invoke(messages_with("validate", self_name, prompt'))
    /\ returned' = validate(response)
    /\ UNCHANGED <<component, self_name, response, proposed, queries,
                   councilVars, sessionVars>>

\* CouncilAgent.respond_to_discussion(dossier, all_analyses)
RespondToDiscussion ==
    /\ component = "respond_to_discussion" /\ returned = NotCalled
    /\ prompt' = formatted_prompt(self_name, analyses)
    /\ Invoke(messages_with("respond_to_discussion", self_name, prompt'))
    /\ returned' = respond_to_discussion(self_name, analyses, response)
    /\ UNCHANGED <<component, self_name, response, proposed, queries,
                   councilVars, sessionVars>>

NextPrompts == ValidateAnalyses \/ RespondToDiscussion

SpecPrompts == InitPrompts /\ [][NextPrompts]_vars

\* the piece carries the value under the label
PartIs(p, label, value) == p.label = label /\ p.value = value

\* the places of the prompt where the section of the agent starts
HeaderAt(label, a) == {i \in DOMAIN prompt : PartIs(prompt[i], label, a)}

\* the JSON texts embedded in the section of the prompt that starts at i:
\* the parts up to the next header
EmbeddedAfter(i) ==
    { prompt[j].value : j \in
        {j \in (i + 3)..(i + 4) :
            /\ j \in DOMAIN prompt
            /\ prompt[j].label \in {"Function Analysis", "Quadra Analysis"}
            /\ \A m \in (i + 1)..j : prompt[m].label # "agent_name"} }

\* the section of the specialist embeds type, reasoning and lens payload
EmbedsClaimsOf(a) ==
    \E i \in HeaderAt("agent_name", a) :
        /\ PartIs(prompt[i + 1], "Predicted", Get(analyses[a], "predicted_type", "Unknown"))
        /\ PartIs(prompt[i + 2], "Reasoning", Get(analyses[a], "reasoning", "No reasoning"))
        /\ Truthy(Get(analyses[a], LensKey(a), EmptyDict)) =>
              json_dumps(analyses[a][LensKey(a)]) \in EmbeddedAfter(i)

\* C26: the prompt validate builds embeds, for every specialist in
\* all_analyses, its predicted_type, its reasoning and its complete
\* lens-specific payload: 'analysis' of Agent Reinin, 'quadra_analysis' of
\* Agent Quadra, 'function_analysis' of Agent Functions.
C26_ValidationPromptEmbedsPayloads ==
    Ended("validate") => \A a \in DOMAIN analyses : EmbedsClaimsOf(a)

\* the same for the two specialists whose payload key validate reads
PayloadsOfQuadraAndFunctions ==
    Ended("validate") =>
        \A a \in DOMAIN analyses \ {"Agent Reinin"} : EmbedsClaimsOf(a)

\* the prompt lists the triple of agent a right after naming it
ListsTriple(i, a) ==
    /\ PartIs(prompt[i + 1], "predicted", Get(analyses[a], "predicted_type", "Unknown"))
    /\ PartIs(prompt[i + 2], "confidence", Get(analyses[a], "confidence", 0))
    /\ PartIs(prompt[i + 3], "Their reasoning",
                            Get(analyses[a], "reasoning", "No reasoning provided"))

\* C27: the prompt respond_to_discussion builds lists the (predicted_type,
\* confidence, reasoning) triple of every agent in all_analyses other than
\* the responding one, each once; the own analysis of the responding agent
\* appears only as its own previous prediction and reasoning; the method
\* returns the text of the model as it is.
C27_DiscussionPrompt ==
    Ended("respond_to_discussion") =>
        LET own == Get(analyses, self_name, EmptyDict) IN
        /\ \A a \in DOMAIN analyses \ {self_name} :
            /\ Cardinality(HeaderAt("predicted by", a)) = 1
            /\ \A i \in HeaderAt("predicted by", a) : ListsTriple(i, a)
        /\ HeaderAt("predicted by", self_name) = {}
        /\ Cardinality({i \in DOMAIN prompt : prompt[i].label = "predicted by"})
              = Cardinality(DOMAIN analyses \ {self_name})
        /\ PartIs(prompt[1], "You are", self_name)
        /\ PartIs(prompt[2], "Your previous prediction", Get(own, "predicted_type", "Unknown"))
        /\ PartIs(prompt[3], "Your reasoning", Get(own, "reasoning", "No reasoning provided"))
        /\ \A i \in DOMAIN prompt : i > 3 =>
              prompt[i].label \notin {"You are", "Your previous prediction", "Your reasoning"}
        /\ \E m \in sent : m[2].content = prompt
        /\ response.ok => returned = Return("str", response.content)

\* C27: Agent Quadra answered on three analyses, its own among them, and the
\* text of the model came back
C27_Witness ==
    /\ Ended("respond_to_discussion")
    /\ self_name = "Agent Quadra"
    /\ DOMAIN analyses = AgentNames
    /\ \A a \in AgentNames : LensKey(a) \in DOMAIN analyses[a]
    /\ returned.kind = "return"
    /\ Len(prompt) = 13

-----------------------------------------------------------------------------
(* Further claims about the session flow of app.py, checked under Spec *)

\* the verdict of the complete phase is on display (and saved)
VerdictShown == phase = "complete" /\ final_result # None

\* the value under the session key was stored during the current run
OfThisRun(k) == origin[k] = run

\* C28: whenever the phase is complete and a verdict is displayed or saved,
\* every result in use belongs to the current run: final_result was
\* synthesized in this run from this run's dossier and council_results, and
\* discussion_results and validation_results were computed in this run,
\* also for a run started after a history entry was opened and left by
\* "Back to New Analysis" while results of an earlier run were in the
\* session state.
C28_ResultsBelongToRun ==
    VerdictShown =>
        /\ OfThisRun("dossier")
        /\ OfThisRun("council_results")
        /\ OfThisRun("discussion_results")
        /\ validation_results # None => OfThisRun("validation_results")
        /\ OfThisRun("final_result")

\* the same in sessions in which no run was started over the results of an
\* earlier one
FreshRunsBelongToRun ==
    (VerdictShown /\ run = 1) =>
        /\ OfThisRun("dossier")
        /\ OfThisRun("council_results")
        /\ OfThisRun("discussion_results")
        /\ validation_results # None => OfThisRun("validation_results")
        /\ OfThisRun("final_result")

\* the script has run the branch of the complete phase that saves and
\* displays the verdict, and nothing has happened since
Displayed == VerdictShown /\ ~rerun /\ api_key

\* the entries save_analysis_to_history wrote for run r
SavedOf(r) == {i \in DOMAIN history : history[i].run = r}

\* C29: each run that reaches the final verdict display is saved to history
\* exactly once: never a second time on later reruns of the complete phase,
\* and once the verdict is displayed there is one entry of the run, holding
\* the dossier, council results, discussion, validation report and verdict
\* of that run.
C29_SavedOncePerRun ==
    /\ \A r \in 1..MaxRuns : Cardinality(SavedOf(r)) <= 1
    /\ Displayed =>
        /\ Cardinality(SavedOf(run)) = 1
        /\ \A i \in SavedOf(run) :
            /\ history[i].dossier = dossier /\ OfThisRun("dossier")
            /\ history[i].council_results = council_results
            /\ OfThisRun("council_results")
            /\ history[i].discussion_results = discussion_results
            /\ OfThisRun("discussion_results")
            /\ history[i].validation_results = validation_results
            /\ history[i].final_result = final_result /\ OfThisRun("final_result")

\* no run is saved twice, and the first run of a session is saved when its
\* verdict is displayed
SavedOnceInFirstRun ==
    /\ \A r \in 1..MaxRuns : Cardinality(SavedOf(r)) <= 1
    /\ (Displayed /\ run = 1) =>
        /\ Cardinality(SavedOf(run)) = 1
        /\ \A i \in SavedOf(run) :
            /\ history[i].dossier = dossier /\ OfThisRun("dossier")
            /\ history[i].council_results = council_results
            /\ history[i].discussion_results = discussion_results
            /\ history[i].validation_results = validation_results
            /\ history[i].final_result = final_result /\ OfThisRun("final_result")

\* the place of a phase on the way of a run
PhaseRank(p) ==
    CASE p = "input" -> 1
      [] p = "researching" -> 2
      [] p = "analyzing" -> 3
      [] p = "discussing" -> 4
      [] p = "complete" -> 5
      [] OTHER -> 0

\* one step forward on the way of a run
StepForward ==
    /\ PhaseRank(phase) >= 1
    /\ PhaseRank(phase') = PhaseRank(phase) + 1

\* the moves of the phase the claim names
NamedMove ==
    \/ phase' = phase
    \/ StepForward
    \/ phase = "history_view" /\ phase' = "input"
    \/ event' = "reset" /\ phase' = "input"

\* what the session state holds in the phases that need it
PhaseHasInputs ==
    /\ phase = "analyzing" => dossier # None
    /\ phase = "discussing" =>
          DOMAIN council_results = {"reinin", "quadra", "functions"}
    /\ phase = "complete" => discussion_results # None

\* C30: the session phase only moves along input -> researching ->
\* analyzing -> discussing -> complete, one step at a time, or from
\* history_view to input, or to input by Reset; and in every reachable state
\* phase analyzing implies the dossier is set, phase discussing implies
\* council_results holds three analyses, and phase complete implies
\* discussion_results is set.
C30_PhaseOrder == [][NamedMove]_vars /\ []PhaseHasInputs

\* the moves of the phase, the history button of the sidebar included
MovesWithHistoryButton ==
    [][NamedMove \/ (event' = "view_history" /\ phase' = "history_view")]_vars

\* the later phases have their inputs
LaterPhasesHaveInputs ==
    /\ phase = "discussing" =>
          DOMAIN council_results = {"reinin", "quadra", "functions"}
    /\ phase = "complete" => discussion_results # None

\* the analysis phase without a dossier
AnalyzingWithoutDossier == phase = "analyzing" /\ dossier = None

-----------------------------------------------------------------------------
(* Further claims about TheCouncil.full_deliberation, checked under SpecCouncil *)

\* the task of the agent in the fan-out has been handed to the pool
Started(f, a) == task[f][a].kind # "none"

\* the task has come back, with a value or an exception
HasResolved(f, a) == task[f][a].kind \in {"return", "raise"}

\* the model calls made so far for the user prompt of method c
SentFor(c) == {msgs \in sent : msgs[2].content = c}

\* the three analyses in the tuple full_deliberation returned, by agent
ReturnedTriple ==
    [a \in AgentNames |->
        CASE a = "Agent Reinin" -> outcome.value.reinin
          [] a = "Agent Quadra" -> outcome.value.quadra
          [] a = "Agent Functions" -> outcome.value.functions]

\* C31: full_deliberation runs analysis, discussion and validation strictly
\* in this order: no respond_to_discussion task is started and no
\* discussion prompt is sent before all three analyze tasks have resolved,
\* the validation call is made only after all three discussion tasks have
\* resolved, and the analyses the discussion and the validation were given
\* are the three analyses returned to the caller.
C31_PhasesInOrder ==
    method = "full_deliberation" =>
        /\ ((\E a \in AgentNames : Started("discussion", a))
              \/ SentFor("respond_to_discussion") # {}) =>
                  \A a \in AgentNames : HasResolved("analysis", a)
        /\ (validation # NotCalled \/ SentFor("validate") # {}) =>
              \A a \in AgentNames : HasResolved("discussion", a)
        /\ stage = "returned" =>
            /\ ReturnedTriple = analyses
            /\ Cardinality(SentFor("respond_to_discussion")) = 3
            /\ Cardinality(SentFor("validate")) = 1
            /\ \A msgs \in SentFor("respond_to_discussion") \cup SentFor("validate") :
                  msgs[2].about = PredictedTypes(ReturnedTriple)

\* C31: full_deliberation returned; its analysis callback had changed the
\* records it was handed, one analyze task had raised and another was
\* answered with a JSON object
C31_Witness ==
    /\ method = "full_deliberation" /\ stage = "returned"
    /\ callback = "mutate"
    /\ task.analysis["Agent Reinin"].kind = "raise"
    /\ task.analysis["Agent Quadra"].kind = "return"
    /\ task.analysis["Agent Quadra"].value["predicted_type"] = "BBB"
    /\ outcome.value.quadra["predicted_type"] = "ZZZ"

-----------------------------------------------------------------------------
(* The prompts built from a dossier and from analysis records *)

\* an element of a JSON list with its Python type
Item(type, value) == [type |-> type, value |-> value]

\* _format_dossier reading the facts by dossier["biographical_facts"]
facts_of_new_format_only(doc) ==
    IF "biographical_facts" \in DOMAIN doc
    THEN Return("list", doc["biographical_facts"])
    ELSE Raise("KeyError", "biographical_facts")

\* _format_dossier looking for the old key first
facts_of_old_format_first(doc) ==
    Return("list", Get(doc, "behavioral_facts",
                       Get(doc, "biographical_facts", <<>>)))

\* facts = dossier.get("biographical_facts", dossier.get("behavioral_facts", []))
facts_of(doc) ==
    Return("list", Get(doc, "biographical_facts",
                       Get(doc, "behavioral_facts", <<>>)))

\* lines.append(f"{i}. {fact}") for i, fact in enumerate(facts, 1)
FactLines(facts) ==
    [i \in 1..Len(facts) |-> Part("fact", [n |-> i, text |-> facts[i]])]

\* the line of one element of key_quotes
QuoteLine(quote_obj) ==
    IF quote_obj.type = "dict"
    THEN Part("quote", [quote |-> Get(quote_obj.value, "quote", ""),
                        context |-> Get(quote_obj.value, "context", "")])
    ELSE Part("quote", [quote |-> quote_obj.value])

RECURSIVE RelationshipLines(_)
RelationshipLines(rels) ==
    IF rels = <<>> THEN <<>>
    ELSE (IF Head(rels).type = "dict"
          THEN <<Part("relationship",
                      [person |-> Get(Head(rels).value, "person", "Unknown"),
                       dynamic |-> Get(Head(rels).value, "dynamic", "")])>>
          ELSE <<>>)
         \o RelationshipLines(Tail(rels))

\* CouncilAgent._format_dossier(dossier): the lines that are joined
format_dossier(doc) ==
    LET facts == facts_of(doc)
        quotes == Get(doc, "key_quotes", <<>>)
    IN  IF facts.kind = "raise" THEN facts
        ELSE Return("str",
               << Part("Character", Get(doc, "character_name", "Unknown")),
                  Part("Source", Get(doc, "media_source", "Unknown")),
                  Part("text", ""),
                  Part("text", "BIOGRAPHICAL FACTS:") >>
               \o FactLines(facts.value)
               \o <<Part("text", "KEY QUOTES:")>>
               \o [i \in 1..Len(quotes) |-> QuoteLine(quotes[i])]
               \o (IF "relationships" \in DOMAIN doc
                   THEN <<Part("text", "KEY RELATIONSHIPS:")>>
                        \o RelationshipLines(Get(doc, "relationships", <<>>))
                   ELSE <<>>)
               \o <<Part("SUMMARY", Get(doc, "summary", "No summary available"))>>)

\* user_prompt of CouncilAgent.analyze
analysis_prompt(dossier_text) ==
    <<Part("text", "Analyze the following character dossier ... CHARACTER DOSSIER:")>>
    \o dossier_text
    \o <<Part("text", "Provide your analysis in the specified JSON format.")>>

\* discussion_section of ManagerAgent.synthesize
discussion_section(discussion) ==
    IF ~Truthy(discussion) THEN <<>>
    ELSE <<Part("text", "=== AGENT DISCUSSION (Counter-arguments and Refinements) ===")>>
         \o [i \in 1..Len(Keys(discussion)) |->
               Part("discussion", [agent_name |-> Keys(discussion)[i],
                                   response |-> discussion[Keys(discussion)[i]]])]

\* the lines the loop over errors adds: only the errors that are dicts
RECURSIVE ErrorLines(_)
ErrorLines(errors) ==
    IF errors = <<>> THEN <<>>
    ELSE (IF Head(errors).type = "dict"
          THEN <<Part("error",
                      [agent |-> Get(Head(errors).value, "agent", "Agent"),
                       claim |-> Get(Head(errors).value, "claim", ""),
                       correction |-> Get(Head(errors).value, "correction", "")])>>
          ELSE <<>>)
         \o ErrorLines(Tail(errors))

\* validation_section of ManagerAgent.synthesize; a summary is a text, "" is <<>>
validation_section(report) ==
    IF ~Truthy(report) THEN <<>>
    ELSE LET errors == Get(report, "errors_found", <<>>)
         IN  <<Part("text", "=== VALIDATOR REPORT (Fact-Check Results) ===")>>
             \o (IF errors # <<>>
                 THEN <<Part("Errors Found", Len(errors))>> \o ErrorLines(errors)
                 ELSE <<Part("text", "No theoretical errors found.")>>)
             \o (IF Get(report, "summary", <<>>) # <<>>
                 THEN <<Part("Summary", report["summary"])>>
                 ELSE <<>>)

\* the block of one specialist in the user prompt of synthesize
SpecialistBlock(title, analysis, with_quadra) ==
    << Part("text", title),
       Part("Predicted Type", Get(analysis, "predicted_type", "Unknown")) >>
    \o (IF with_quadra
        THEN <<Part("Predicted Quadra", Get(analysis, "predicted_quadra", "Unknown"))>>
        ELSE <<>>)
    \o << Part("Confidence", Get(analysis, "confidence", 0)),
          Part("Reasoning", Get(analysis, "reasoning", "No reasoning provided")) >>

\* user_prompt of ManagerAgent.synthesize
synthesis_prompt(doc, reinin, quadra, functions, discussion, report) ==
    << Part("CHARACTER", [character_name |-> Get(doc, "character_name", "Unknown"),
                          media_source |-> Get(doc, "media_source", "Unknown")]),
       Part("SCOUT'S SUMMARY", Get(doc, "summary", "No summary available.")),
       Part("text", "SPECIALIST ANALYSES:") >>
    \o SpecialistBlock("=== AGENT REININ (Reinin Dichotomies) ===", reinin, FALSE)
    \o SpecialistBlock("=== AGENT QUADRA (Quadra Values) ===", quadra, TRUE)
    \o SpecialistBlock("=== AGENT FUNCTIONS (Model A Functions) ===", functions, FALSE)
    \o discussion_section(discussion)
    \o validation_section(report)
    \o << Part("Based on", [discussion |-> Truthy(discussion),
                            validation |-> Truthy(report)]) >>

\* the kinds of record an analysis slot may hold after deliberate
RecordKinds == {"normal", "parse-failure", "task-failure"}

\* the record analyze returns for an answer in the format of the system
\* prompt of agent a
NormalRecord(a) ==
    LET answer == SetItem([predicted_type |-> "AAA", confidence |-> 70,
                           reasoning |-> "r", agent_name |-> a],
                          LensKey(a), LensPayload(a))
    IN  IF a = "Agent Quadra" THEN SetItem(answer, "predicted_quadra", "Beta")
        ELSE answer

RecordOf(a, kind) ==
    CASE kind = "normal" -> NormalRecord(a)
      [] kind = "parse-failure" -> analyze(a, [ok |-> TRUE, content |-> <<"txt">>]).value
      [] kind = "task-failure" -> AnalysisError(a, "timeout")

\* what a dossier decoded from the Scout's answer may hold
DossierShapes ==
    [names : BOOLEAN, old : BOOLEAN, new : {"absent", "empty", "two"},
     quotes : BOOLEAN, rels : {"absent", "empty", "two"}, summary : BOOLEAN]

WithKey(d, present, k, v) == IF present THEN SetItem(d, k, v) ELSE d

DossierOf(o) ==
    WithKey(WithKey(WithKey(WithKey(WithKey(WithKey(WithKey(EmptyDict,
        o.names, "character_name", "X"),
        o.names, "media_source", "Y"),
        o.old, "behavioral_facts", <<"f1", "f2", "f3">>),
        o.new # "absent", "biographical_facts",
            IF o.new = "two" THEN <<"b1", "b2">> ELSE <<>>),
        o.quotes, "key_quotes",
            << Item("dict", [quote |-> "q1", context |-> "c1"]),
               Item("str", "q2"),
               Item("dict", [quote |-> "q3"]) >>),
        o.rels # "absent", "relationships",
            IF o.rels = "two"
            THEN << Item("dict", [person |-> "P", dynamic |-> "d"]),
                    Item("str", "rival") >>
            ELSE <<>>),
        o.summary, "summary", "s")

\* answers of the Scout's model that research cannot decode
ProseAnswers ==
    { [ok |-> TRUE, content |-> <<"txt">>],
      [ok |-> TRUE, content |-> <<"txt", "txt", "txt">>] }

\* the dossier research returns for such an answer
DegradedDossier(resp) == research("X", "Y", resp).value

\* discussion_results handed to synthesize
DiscussionKinds == {"none", "empty", "all", "one", "with-error"}

DiscussionOf(kind) ==
    CASE kind = "none" -> None
      [] kind = "empty" -> EmptyDict
      [] kind = "all" -> [a \in AgentNames |-> <<"txt">>]
      [] kind = "one" -> [a \in {"Agent Quadra"} |-> <<"txt">>]
      [] kind = "with-error" ->
           [a \in AgentNames |-> IF a = "Agent Reinin" THEN DiscussionError("timeout")
                                 ELSE <<"txt">>]

\* validation_results handed to synthesize
ReportKinds == {"none", "empty", "clean", "two-errors", "text-error",
                "no-errors-key", "no-summary", "degraded"}

DictError(agent) ==
    Item("dict", [agent |-> agent, claim |-> "c", correction |-> "k"])

ReportOf(kind) ==
    CASE kind = "none" -> None
      [] kind = "empty" -> EmptyDict
      [] kind = "clean" ->
           [errors_found |-> <<>>, verified_correct |-> <<"c1">>, summary |-> <<"ok">>]
      [] kind = "two-errors" ->
           [errors_found |-> <<DictError("Agent Reinin"), Item("dict", [claim |-> "c"])>>,
            verified_correct |-> <<>>, summary |-> <<"ok">>]
      [] kind = "text-error" ->
           [errors_found |-> <<DictError("Agent Quadra"), Item("str", "wrong quadra")>>,
            verified_correct |-> <<>>, summary |-> <<"ok">>]
      [] kind = "no-errors-key" -> [summary |-> <<"ok">>]
      [] kind = "no-summary" ->
           [errors_found |-> <<DictError("Agent Functions")>>, summary |-> <<>>]
      [] kind = "degraded" -> validate([ok |-> TRUE, content |-> <<"txt">>]).value

SynthesisResponses ==
    { [ok |-> TRUE, content |-> <<Fence, "json", "V_AAA", Fence>>],
      [ok |-> TRUE, content |-> <<"txt">>],
      [ok |-> FALSE, cause |-> "timeout"] }

\* one call of analyze, respond_to_discussion, validate or synthesize on
\* records and dossiers of every kind
InitRecords ==
    /\ component \in {"analyze", "respond_to_discussion", "validate", "synthesize"}
    /\ self_name \in (IF component \in {"analyze", "respond_to_discussion"}
                      THEN AgentNames ELSE {"none"})
    /\ response \in (CASE component = "analyze" -> AnalysisResponses
                       [] component = "respond_to_discussion" -> DiscussionResponses
                       [] component = "validate" -> ValidationResponses
                       [] component = "synthesize" -> SynthesisResponses)
    /\ proposed = <<>>
    /\ returned = NotCalled
    /\ queries = <<>>
    /\ prompt = None
    /\ invocations = 0
    /\ sent = {}
    /\ method = "none"
    /\ stage = "none"
    /\ callback = "none"
    /\ task = NoTasks
    /\ done = {}
    /\ results = EmptyDict
    /\ writes = NoWrites
    /\ cb_calls = <<>>
    /\ validation = NotCalled
    /\ outcome = NotCalled
    /\ council = NewCouncil
    /\ uses = 0
    /\ IF component = "analyze"
       THEN /\ analyses = EmptyDict
            /\ \/ \E o \in DossierShapes :
                    given = [dossier |-> DossierOf(o), all_analyses |-> None,
                             discussion_results |-> None, validation_results |-> None]
               \/ \E resp \in ProseAnswers :
                    given = [dossier |-> DegradedDossier(resp), all_analyses |-> None,
                             discussion_results |-> None, validation_results |-> None]
       ELSE /\ \E kinds \in [AgentNames -> RecordKinds] :
                    analyses = [a \in AgentNames |-> RecordOf(a, kinds[a])]
            /\ \E resp \in ProseAnswers, d \in DiscussionKinds, r \in ReportKinds :
                 /\ component # "synthesize" =>
                        resp.content = <<"txt">> /\ d = "none" /\ r = "none"
                 /\ given = [dossier |-> IF component = "synthesize"
                                         THEN DegradedDossier(resp) ELSE GivenDossier,
                             all_analyses |-> analyses,
                             discussion_results |-> DiscussionOf(d),
                             validation_results |-> ReportOf(r)]
    /\ SessionIdle

\* CouncilAgent.analyze(dossier)
AnalyzeDossier ==
    /\ component = "analyze" /\ returned = NotCalled
    /\ LET dossier_text == format_dossier(given.dossier)
       IN  IF dossier_text.kind = "raise"
           THEN /\ returned' = dossier_text
                /\ UNCHANGED <<prompt, invocations, sent>>
           ELSE /\ prompt' = analysis_prompt(dossier_text.value)
                /\ Invoke(messages_with("analyze", self_name, prompt'))
                /\ returned' = analyze(self_name, response)
    /\ UNCHANGED <<component, self_name, response, proposed, queries,
                   councilVars, sessionVars>>

\* ManagerAgent.synthesize(dossier, reinin_analysis, quadra_analysis,
\* functions_analysis, discussion_results, validation_results)
SynthesizeRecords ==
    /\ component = "synthesize" /\ returned = NotCalled
    /\ prompt' = synthesis_prompt(given.dossier, analyses["Agent Reinin"],
                                  analyses["Agent Quadra"], analyses["Agent Functions"],
                                  given.discussion_results, given.validation_results)
    /\ Invoke(messages_with("synthesize", self_name, prompt'))
    /\ returned' = synthesize(response)
    /\ UNCHANGED <<component, self_name, response, proposed, queries,
                   councilVars, sessionVars>>

NextRecords ==
    AnalyzeDossier \/ RespondToDiscussion \/ ValidateAnalyses \/ SynthesizeRecords

SpecRecords == InitRecords /\ [][NextRecords]_vars

\* the task is done: what was asked of the model came back
Answered == returned # NotCalled /\ response.ok

\* the facts the rendered dossier text of the prompt holds, in order
FactsIn(text) == SelectSeq(text, LAMBDA p : p.label = "fact")

\* the model's answer to analyze is an object or is not JSON
Analyzable ==
    response.ok /\ Loaded(response.content).type \in {"dict", "JSONDecodeError"}

\* C32: degraded and error records need no special handling downstream:
\* whatever mix of normal, parse-failure and task-failure records the three
\* analyses are, respond_to_discussion (the task of run_discussion),
\* validate and synthesize build their prompt, call the model once and
\* return when the model answers; and analyze on a degraded dossier does
\* the same, with the dossier's single fact as fact 1 of its prompt.
C32_RecordsNeedNoSpecialHandling ==
    returned # NotCalled =>
        /\ invocations = 1
        /\ component \in {"respond_to_discussion", "validate", "synthesize"} =>
              (response.ok => returned.kind = "return")
        /\ (component = "analyze" /\ "raw_response" \in DOMAIN given.dossier) =>
              /\ Analyzable => returned.kind = "return"
              /\ Len(FactsIn(prompt)) = 1
              /\ FactsIn(prompt)[1].value.n = 1
              /\ FactsIn(prompt)[1].value.text = given.dossier["behavioral_facts"][1]

\* C32: synthesize returned a verdict on a parse-failure record, a
\* task-failure record and a normal one
C32_Witness ==
    /\ component = "synthesize" /\ returned.kind = "return"
    /\ analyses["Agent Reinin"]["predicted_type"] = "Unknown"
    /\ analyses["Agent Quadra"]["predicted_type"] = "Error"
    /\ analyses["Agent Functions"]["predicted_type"] = "AAA"

\* analyze returned on a degraded dossier
AnalyzedDegraded ==
    /\ component = "analyze" /\ returned.kind = "return"
    /\ "raw_response" \in DOMAIN given.dossier

-----------------------------------------------------------------------------
(* Further claims about the session flow of app.py, checked under Spec *)

\* while the key holds a value no script run makes the calls, and only
\* Reset takes the value away
KeptUntilReset(value, next_value, phases) ==
    value # None =>
        /\ \A p \in phases : ~Called(p)'
        /\ event' # "reset" => next_value = value

\* C33: once discussion_results is stored no script run makes a discussion
\* or validation call for that run, and once final_result is stored no
\* script run makes a synthesize call for that run, however often the script
\* is rerun in that phase; only Reset lets them be computed again.
C33_StoredResultsNotRecomputed ==
    [][/\ StoredThisRun("discussion_results") =>
             /\ ~Called("discussion")' /\ ~Called("validation")'
             /\ event' # "reset" => discussion_results' = discussion_results
       /\ StoredThisRun("final_result") =>
             /\ ~Called("synthesize")'
             /\ event' # "reset" => final_result' = final_result]_vars

\* while discussion_results and final_result hold a value that is not None
\* no script run makes their calls, and the value stays until Reset; in the
\* run that stored discussion_results the discussion was invoked once
HeldValuesNotRecomputed ==
    /\ [][/\ KeptUntilReset(discussion_results, discussion_results',
                            {"discussion", "validation"})
          /\ KeptUntilReset(final_result, final_result', {"synthesize"})]_vars
    /\ [](StoredThisRun("discussion_results") =>
            invoked["discussion"] = 1 /\ invoked["validation"] = 1)

\* synthesize returned None, the complete block stored it, and the next
\* script run called synthesize again
SynthesisRepeated ==
    /\ phase = "complete" /\ final_result = None
    /\ StoredThisRun("final_result")
    /\ invoked["synthesize"] = 2

-----------------------------------------------------------------------------
(* Claims about the prompt of ManagerAgent.synthesize, checked under SpecRecords *)

\* the parts of the prompt with the label
PartsOf(text, label) == SelectSeq(text, LAMBDA p : p.label = label)

\* the prompt has the line of text
HasText(text, line) == \E i \in DOMAIN text : PartIs(text[i], "text", line)

ValidationHeader == "=== VALIDATOR REPORT (Fact-Check Results) ==="
DiscussionHeader == "=== AGENT DISCUSSION (Counter-arguments and Refinements) ==="
NoErrorsLine == "No theoretical errors found."

\* errors_found of the report handed to synthesize
ErrorsGiven == Get(given.validation_results, "errors_found", <<>>)

\* the sections are there exactly for a non-empty report and a non-empty
\* map, and the discussion section has one entry per agent of the map
SectionsPresent ==
    /\ HasText(prompt, ValidationHeader) <=> Truthy(given.validation_results)
    /\ HasText(prompt, DiscussionHeader) <=> Truthy(given.discussion_results)
    /\ IF Truthy(given.discussion_results)
       THEN LET entries == PartsOf(prompt, "discussion") IN
            /\ Len(entries) = Cardinality(DOMAIN given.discussion_results)
            /\ \A a \in DOMAIN given.discussion_results :
                 \E i \in DOMAIN entries :
                    /\ entries[i].value.agent_name = a
                    /\ entries[i].value.response = given.discussion_results[a]
       ELSE PartsOf(prompt, "discussion") = <<>>

\* the itemized line i is the one of the error e
LineOf(line, e) ==
    /\ e.type = "dict"
    /\ line.value.agent = Get(e.value, "agent", "Agent")
    /\ line.value.claim = Get(e.value, "claim", "")
    /\ line.value.correction = Get(e.value, "correction", "")

\* C34: the validation section of the synthesizer prompt is present exactly
\* when a non-empty report is passed and the discussion section exactly when
\* a non-empty discussion map is passed, with one entry per agent of the
\* map; a validation section states the number of errors with one itemized
\* line per counted error, in order, or it states that no errors were found,
\* the latter exactly when errors_found is empty.
C34_PromptSections ==
    (component = "synthesize" /\ returned # NotCalled) =>
        /\ SectionsPresent
        /\ Truthy(given.validation_results) =>
            LET counts == PartsOf(prompt, "Errors Found")
                lines == PartsOf(prompt, "error")
            IN  IF ErrorsGiven = <<>>
                THEN /\ HasText(prompt, NoErrorsLine)
                     /\ counts = <<>> /\ lines = <<>>
                ELSE /\ ~HasText(prompt, NoErrorsLine)
                     /\ Len(counts) = 1
                     /\ counts[1].value = Len(ErrorsGiven)
                     /\ Len(lines) = counts[1].value
                     /\ \A i \in DOMAIN lines : LineOf(lines[i], ErrorsGiven[i])
        /\ ~Truthy(given.validation_results) =>
            /\ ~HasText(prompt, NoErrorsLine)
            /\ PartsOf(prompt, "Errors Found") = <<>>

\* the errors that are JSON objects, in order
DictErrors(errors) == SelectSeq(errors, LAMBDA e : e.type = "dict")

\* the same with the itemized lines being those of the errors that are
\* objects, while the count is the length of errors_found
SectionsWithDictErrorsItemized ==
    (component = "synthesize" /\ returned # NotCalled) =>
        /\ SectionsPresent
        /\ Truthy(given.validation_results) =>
            LET counts == PartsOf(prompt, "Errors Found")
                lines == PartsOf(prompt, "error")
            IN  /\ HasText(prompt, NoErrorsLine) <=> ErrorsGiven = <<>>
                /\ ErrorsGiven = <<>> => counts = <<>>
                /\ ErrorsGiven # <<>> =>
                      Len(counts) = 1 /\ counts[1].value = Len(ErrorsGiven)
                /\ Len(lines) = Len(DictErrors(ErrorsGiven))
                /\ \A i \in DOMAIN lines : LineOf(lines[i], DictErrors(ErrorsGiven)[i])

\* a report with an error that is a text was handed to synthesize: the
\* section counts two errors and itemizes one
CountedNotItemized ==
    /\ component = "synthesize" /\ returned # NotCalled
    /\ Len(ErrorsGiven) = 2
    /\ PartsOf(prompt, "Errors Found")[1].value = 2
    /\ Len(PartsOf(prompt, "error")) = 1

-----------------------------------------------------------------------------
(* Further claims about search_character, checked under SpecSearch *)

\* the number of results the queries before query i returned, duplicates
\* and results without URL included
Accumulated(qs, i) == Len(Flat(SubSeq(qs, 1, i - 1)))

\* the first n elements of a list
FirstN(list, n) == SubSeq(list, 1, Min({Len(list), n}))

\* C35: a failing query is contained to that query: search_character
\* returns, every query reached with fewer than max_results results
\* accumulated is attempted, whether or not queries before it failed, no
\* query is attempted once the accumulated count has reached max_results,
\* and the returned list is made of the results of all attempted queries
\* that returned.
C35_QueryFailureContained ==
    Ended("search_character") =>
        LET issued == Attempted(queries, 1, <<>>) IN
        /\ returned.kind = "return"
        /\ \A i \in DOMAIN queries :
              i \in Range(issued) <=> Accumulated(queries, i) < MaxResults
        /\ \A k \in DOMAIN issued : issued[k] = k
        /\ returned.value =
              FirstN(Unique(Flat(SubSeq(queries, 1, Len(issued))), {}), MaxResults)

\* C35: the first and the third query failed, the second and the fourth
\* gave results that are returned, and the loop stopped before the last
\* query because enough results had been gathered
C35_Witness ==
    /\ Ended("search_character")
    /\ queries[1].kind = "raise" /\ queries[3].kind = "raise"
    /\ queries[2].kind = "return" /\ queries[4].kind = "return"
    /\ \E m \in DOMAIN returned.value : returned.value[m] \in Range(queries[2].value)
    /\ \E m \in DOMAIN returned.value : returned.value[m] \in Range(queries[4].value)
    /\ Len(Attempted(queries, 1, <<>>)) < NumQueries

\* C36: a click on Reset, in whatever phase the session is, leaves the
\* session in phase 'input' with dossier, council_results,
\* discussion_results, validation_results, final_result and viewing_history
\* None and analysis_saved false, and with api_key and auto_proceed as they
\* were; the button can be clicked whenever the script is waiting for an
\* event.
C36_ResetClearsRun ==
    /\ [][event' = "reset" =>
            /\ phase' = "input"
            /\ dossier' = None /\ council_results' = None
            /\ discussion_results' = None /\ validation_results' = None
            /\ final_result' = None /\ viewing_history' = None
            /\ analysis_saved' = FALSE
            /\ api_key' = api_key /\ auto_proceed' = auto_proceed]_vars
    /\ [](~rerun => ENABLED Reset)

\* C36: Reset was clicked on the page of a saved verdict, with the key set
\* and auto-proceed on
C36_Witness ==
    /\ event = "reset" /\ phase = "input"
    /\ invoked["synthesize"] >= 1
    /\ history # <<>> /\ history[Len(history)].run = run
    /\ api_key /\ auto_proceed

-----------------------------------------------------------------------------
(* Claims about CouncilAgent._format_dossier, checked under SpecRecords *)

\* the dossier text inside the user prompt of analyze
Rendered == SubSeq(prompt, 2, Len(prompt) - 1)

\* the facts the text is to hold: those of the new key when the dossier has
\* it, otherwise those of the old key
FactsToRender(d) ==
    IF "biographical_facts" \in DOMAIN d THEN d["biographical_facts"]
    ELSE IF "behavioral_facts" \in DOMAIN d THEN d["behavioral_facts"]
    ELSE <<>>

QuotesToRender(d) == IF "key_quotes" \in DOMAIN d THEN d["key_quotes"] ELSE <<>>

\* the words of a quote
QuoteText(quote_obj) ==
    IF quote_obj.type = "dict" THEN Get(quote_obj.value, "quote", "")
    ELSE quote_obj.value

\* C37: _format_dossier renders a text that depends on the dossier alone:
\* character and source first, then the facts numbered 1..n in list order,
\* taken from 'biographical_facts' when that key is present and otherwise
\* from 'behavioral_facts', then every quote in order, then a relationships
\* section exactly when the dossier has a 'relationships' key, and the
\* summary line last.
C37_DossierText ==
    (component = "analyze" /\ returned # NotCalled) =>
        LET d == given.dossier
            text == Rendered
            n == Len(FactsToRender(d))
            q == Len(QuotesToRender(d))
            after == 5 + n + q
        IN
        /\ text = format_dossier(d).value
        /\ text[1].label = "Character"
        /\ text[1].value = Get(d, "character_name", "Unknown")
        /\ text[2].label = "Source"
        /\ text[2].value = Get(d, "media_source", "Unknown")
        /\ PartIs(text[4], "text", "BIOGRAPHICAL FACTS:")
        /\ \A i \in 1..n :
              /\ text[4 + i].label = "fact"
              /\ text[4 + i].value.n = i
              /\ text[4 + i].value.text = FactsToRender(d)[i]
        /\ PartIs(text[5 + n], "text", "KEY QUOTES:")
        /\ \A i \in 1..q :
              /\ text[5 + n + i].label = "quote"
              /\ text[5 + n + i].value.quote = QuoteText(QuotesToRender(d)[i])
        /\ Len(PartsOf(text, "fact")) = n
        /\ Len(PartsOf(text, "quote")) = q
        /\ HasText(text, "KEY RELATIONSHIPS:") <=> "relationships" \in DOMAIN d
        /\ "relationships" \in DOMAIN d =>
              PartIs(text[after + 1], "text", "KEY RELATIONSHIPS:")
        /\ "relationships" \notin DOMAIN d =>
              /\ PartsOf(text, "relationship") = <<>>
              /\ Len(text) = after + 1
        /\ \A i \in DOMAIN text :
              text[i].label = "relationship" => after + 1 < i /\ i < Len(text)
        /\ text[Len(text)].label = "SUMMARY"
        /\ text[Len(text)].value = Get(d, "summary", "No summary available")
        /\ Len(PartsOf(text, "SUMMARY")) = 1

\* C37: analyze rendered a dossier that has facts under both keys, quotes
\* of both forms and relationships
C37_Witness ==
    /\ component = "analyze" /\ returned # NotCalled
    /\ {"biographical_facts", "behavioral_facts", "relationships", "summary"}
          \subseteq DOMAIN given.dossier
    /\ Len(given.dossier["biographical_facts"]) = 2
    /\ Len(PartsOf(Rendered, "fact")) = 2
    /\ Len(PartsOf(Rendered, "quote")) = 3
    /\ Len(PartsOf(Rendered, "relationship")) = 1

=============================================================================
